---------------------------- MODULE Spec2Model ----------------------------
(***************************************************************************)
(* Model of the call-invitation and token handlers of call-poc-be.         *)
(*                                                                         *)
(*   - the main sendCallInvitation handler                                 *)
(*       src/api/sendCallInvitation.js, lines 121-504                      *)
(*   - the APNs-provider revision of the handler                           *)
(*       src/unnamed/part_002, lines 143-289                               *)
(*   - the payload revision of the handler                                 *)
(*       src/unnamed/part_001, lines 91-243                                *)
(*   - the minimal revision of the handler                                 *)
(*       src/unnamed/part_003, lines 23-72                                 *)
(*   - the two handlers of the token endpoint                              *)
(*       src/api/  token.js, lines 3-16 and 100-177                        *)
(*                                                                         *)
(* A handler is an async function: it runs atomically from one await to    *)
(* the next.  Each action below is one such run: the completion of the     *)
(* awaited collaborator call (document store or messaging transport,       *)
(* which either returns or throws) followed by the handler code up to the  *)
(* next await or to the response.                                          *)
(***************************************************************************)
EXTENDS Integers, Sequences, FiniteSets, TLC

VARIABLES
    env,      \* process configuration, fixed at process start
    users,    \* the "user" collection of the document store
    rooms,    \* the "room" collection: document id -> document
    now,      \* the wall clock read by Date.now()
    pc,       \* per invocation: where the handler is suspended
    req,      \* per invocation: the request being served
    loc,      \* per invocation: the handler's local variables
    res,      \* per invocation: the response object (headers, what was sent)
    trace,    \* per invocation: the collaborator calls made, in order
    outbox    \* per invocation: the messages handed to a push transport

vars == <<env, users, rooms, now, pc, req, loc, res, trace, outbox>>

-----------------------------------------------------------------------------
(* Bounds of the model *)

\* the wall clock runs from 0 to MaxClock
MaxClock == 1

\* the handler invocations a behaviour may hold
Reqs == {1, 2}

-----------------------------------------------------------------------------
(* JavaScript values *)

\* undefined / null where a string is expected
Undefined == "<undefined>"
Null == "<null>"
\* null where an object is expected
NullObj == [isNull |-> TRUE]

\* !v for string-or-undefined values
Falsy(v) == v \in {Undefined, Null, ""}
Truthy(v) == ~Falsy(v)
\* a || b
Or(a, b) == IF Truthy(a) THEN a ELSE b

\* Strings that the code inspects character by character are sequences of
\* one-character strings.  NoStr is the absent (undefined) such string.
NoStr == <<"<undefined>">>
EmptyStr == <<>>
S_ios == <<"i", "o", "s">>
S_IOS == <<"I", "O", "S">>
S_iOS == <<"i", "O", "S">>
S_android == <<"a", "n", "d", "r", "o", "i", "d">>
S_web == <<"w", "e", "b">>

FalsyStr(s) == s = NoStr \/ s = EmptyStr

\* a platform comparison that forgets to normalise the letter case
ToLowerCase_Id(s) == s

\* String.prototype.toLowerCase
ToLowerCase(s) ==
    LET lower(c) ==
            CASE c = "A" -> "a" [] c = "B" -> "b" [] c = "D" -> "d" [] c = "E" -> "e"
              [] c = "I" -> "i" [] c = "N" -> "n" [] c = "O" -> "o" [] c = "R" -> "r"
              [] c = "S" -> "s" [] c = "W" -> "w"
              [] OTHER -> c
    IN  [i \in DOMAIN s |-> lower(s[i])]

-----------------------------------------------------------------------------
(* Configuration *)

\* process.env.AGORA_APP_ID
EnvAgoraAppId == env.AGORA_APP_ID
\* process.env.APNS_VOIP_TOPIC || "com.example.app.voip"
ApnsVoipTopic == "com.example.app.voip"

\* const DEBUG = process.env.DEBUG_CORS === "true"
DEBUG == env.DEBUG_CORS = "true"

O_local5173 == <<"h","t","t","p",":","/","/","l","o","c","a","l","h","o","s","t",":","5","1","7","3">>
O_local3000 == <<"h","t","t","p",":","/","/","l","o","c","a","l","h","o","s","t",":","3","0","0","0">>
O_flirtbate == <<"h","t","t","p","s",":","/","/","f","l","i","r","t","b","a","t","e",".","w","e","b",".","a","p","p">>
O_yourapp == <<"h","t","t","p","s",":","/","/","y","o","u","r","-","a","p","p",".","w","e","b",".","a","p","p">>
O_evil == <<"h","t","t","p","s",":","/","/","e","v","i","l",".","e","x">>

\* the Origin values the CORS policy is checked on: local origins with and
\* without port, near misses of the pattern and of the allow-list
O_lh == <<"h","t","t","p",":","/","/","l","o","c","a","l","h","o","s","t">>
O_lhs == <<"h","t","t","p","s",":","/","/","l","o","c","a","l","h","o","s","t">>
O_lhs8443 == <<"h","t","t","p","s",":","/","/","l","o","c","a","l","h","o","s","t",":","8","4","4","3">>
O_ip == <<"h","t","t","p",":","/","/","1","2","7",".","0",".","0",".","1">>
O_ip8080 == <<"h","t","t","p",":","/","/","1","2","7",".","0",".","0",".","1",":","8","0","8","0">>
O_ips == <<"h","t","t","p","s",":","/","/","1","2","7",".","0",".","0",".","1">>

CorsOrigins ==
    { NoStr, EmptyStr, O_local5173, O_local3000, O_flirtbate, O_yourapp, O_evil,
      O_lh, O_lhs, O_lhs8443, O_ip, O_ip8080, O_ips,
      <<"h","t","t","p",":","/","/","l","o","c","a","l","h","o","s","t",":","3","0","0","0","/">>,
      <<"h","t","t","p",":","/","/","l","o","c","a","l","h","o","s","t",":">>,
      <<"h","t","t","p",":","/","/","l","o","c","a","l","h","o","s","t",":","8","0","a">>,
      <<"h","t","t","p",":","/","/","l","o","c","a","l","h","o","s","t",".","e","v","i","l",".","e","x">>,
      <<"h","t","t","p",":","/","/","1","2","7","x","0","x","0","x","1">>,
      <<"f","t","p",":","/","/","l","o","c","a","l","h","o","s","t">>,
      <<"h","t","t","p",":","/","/","L","O","C","A","L","H","O","S","T">>,
      <<"x","h","t","t","p",":","/","/","l","o","c","a","l","h","o","s","t">>,
      <<"n","u","l","l">>,
      <<"h","t","t","p",":","/","/","f","l","i","r","t","b","a","t","e",".","w","e","b",".","a","p","p">>,
      <<"h","t","t","p","s",":","/","/","f","l","i","r","t","b","a","t","e",".","w","e","b",".","a","p","p","/">> }

DEFAULT_ALLOWED_ORIGINS == {O_flirtbate, O_yourapp, O_local3000, O_local5173}
ALLOWED_ORIGINS == DEFAULT_ALLOWED_ORIGINS

-----------------------------------------------------------------------------
(* CORS *)

Digits == {"0","1","2","3","4","5","6","7","8","9"}

StartsWith(s, p) == Len(s) >= Len(p) /\ SubSeq(s, 1, Len(p)) = p
Drop(s, n) == SubSeq(s, n + 1, Len(s))

\* the port pattern without its end anchor: (:\d+)?
IsOptPort_NoAnchor(s) == TRUE

\* (:\d+)?$
IsOptPort(s) ==
    \/ s = <<>>
    \/ /\ Len(s) >= 2
       /\ s[1] = ":"
       /\ \A i \in 2..Len(s) : s[i] \in Digits

\* (localhost|127\.0\.0\.1)(:\d+)?$
IsLocalHostPart(s) ==
    LET lh == <<"l","o","c","a","l","h","o","s","t">>
        ip == <<"1","2","7",".","0",".","0",".","1">>
    IN  \/ StartsWith(s, lh) /\ IsOptPort(Drop(s, Len(lh)))
        \/ StartsWith(s, ip) /\ IsOptPort(Drop(s, Len(ip)))

\* /^https?:\/\/(localhost|127\.0\.0\.1)(:\d+)?$/.test(origin)
isLocalhostOrigin(origin) ==
    LET http == <<"h","t","t","p",":","/","/">>
        https == <<"h","t","t","p","s",":","/","/">>
    IN  IF FalsyStr(origin) THEN FALSE
        ELSE \/ StartsWith(origin, http) /\ IsLocalHostPart(Drop(origin, Len(http)))
             \/ StartsWith(origin, https) /\ IsLocalHostPart(Drop(origin, Len(https)))

defaultAllowedHeaders ==
    <<"content-type", "authorization", "x-requested-with", "x-client-id",
      "x-firebase-locale", "x-vercel-protection-bypass">>

\* Array.from(new Set(list)): first occurrences, in order
Dedupe(list) ==
    LET first == {i \in DOMAIN list : \A j \in 1..(i - 1) : list[j] # list[i]}
        pos(n) == CHOOSE i \in first : Cardinality({j \in first : j <= i}) = n
    IN  [n \in 1..Cardinality(first) |-> list[pos(n)]]

\* header values that are strings of the response are kept as character
\* sequences when they echo the origin
H_star == <<"*">>
H_null == <<"n","u","l","l">>

\* buildCorsHeaders(origin, acrHeadersRaw); requested is acrHeadersRaw after
\* split(","), trim, toLowerCase and filter(Boolean)
buildCorsHeaders(origin, requested) ==
    LET allowedFromEnv == ~FalsyStr(origin) /\ origin \in ALLOWED_ORIGINS
        allowLocal == isLocalhostOrigin(origin)
        echo == ~FalsyStr(origin) /\ (allowedFromEnv \/ allowLocal)
    IN  [ AllowOrigin |-> IF echo THEN origin
                          ELSE IF FalsyStr(origin) THEN H_star
                          ELSE H_null,
          AllowCredentials |-> IF echo THEN "true" ELSE Undefined,
          Vary |-> "Origin",
          AllowMethods |-> "POST,OPTIONS",
          AllowHeaders |-> Dedupe(defaultAllowedHeaders \o requested),
          MaxAge |-> "3600" ]

\* the response before any header is set
NoHeaders ==
    [ AllowOrigin |-> NoStr, AllowCredentials |-> Undefined,
      Vary |-> Undefined, AllowMethods |-> Undefined,
      AllowHeaders |-> <<>>, MaxAge |-> Undefined ]

-----------------------------------------------------------------------------
(* Payload values: a JavaScript value with its typeof *)

StrV(s) == [t |-> "string", v |-> s]
NumV(n) == [t |-> "number", v |-> n]
BoolV(b) == [t |-> "boolean", v |-> b]
\* an object is its list of <<key, value>> entries, in insertion order
ObjV(entries) == [t |-> "object", v |-> entries]
NullV == [t |-> "null", v |-> "null"]
UndefV == [t |-> "undefined", v |-> "undefined"]

\* a string-or-undefined local as a payload value
OfStr(s) == IF s = Undefined THEN UndefV ELSE IF s = Null THEN NullV ELSE StrV(s)

RECURSIVE JsonStringify(_)
RECURSIVE JsonEntries(_)
\* JSON.stringify(v)
JsonStringify(x) ==
    CASE x.t = "string" -> "\"" \o x.v \o "\""
      [] x.t = "number" -> ToString(x.v)
      [] x.t = "boolean" -> (IF x.v THEN "true" ELSE "false")
      [] x.t = "object" -> "{" \o JsonEntries(x.v) \o "}"
      [] OTHER -> "null"
JsonEntries(es) ==
    IF es = <<>> THEN ""
    ELSE LET e == es[1]
             rest == Tail(es)
             one == "\"" \o e[1] \o "\":" \o JsonStringify(e[2])
         IN  IF e[2].t = "undefined" THEN JsonEntries(rest)
             ELSE IF rest = <<>> \/ JsonEntries(rest) = "" THEN one
             ELSE one \o "," \o JsonEntries(rest)

\* String(v) for a primitive v
String(x) ==
    CASE x.t = "string" -> x.v
      [] x.t = "number" -> ToString(x.v)
      [] x.t = "boolean" -> (IF x.v THEN "true" ELSE "false")
      [] OTHER -> x.v

\* the keys of obj whose value is neither null nor undefined
KeptKeys(obj) == {k \in DOMAIN obj : obj[k].t \notin {"null", "undefined"}}

\* normalizeDataMapForAndroid(obj)
normalizeDataMapForAndroid(obj) ==
    [k \in KeptKeys(obj) |->
        IF obj[k].t = "string" THEN obj[k]
        ELSE IF obj[k].t = "object" THEN StrV(JsonStringify(obj[k]))
        ELSE StrV(String(obj[k]))]

numericFields == {"type", "duration"}

\* normalizeDataMapForIOS(obj); parseInt(v, 10) || 0 is 0 for the strings
\* and primitives of the model, none of which starts with a digit
normalizeDataMapForIOS(obj) ==
    [k \in KeptKeys(obj) |->
        IF k \in numericFields
          THEN (IF obj[k].t = "number" THEN obj[k] ELSE NumV(0))
        ELSE IF obj[k].t = "object" THEN StrV(JsonStringify(obj[k]))
        ELSE StrV(String(obj[k]))]

\* an overlay in which the base map wins: Object.assign({}, inc, base)
Assign_BaseWins(base, inc) ==
    [k \in DOMAIN base \cup DOMAIN inc |->
        IF k \in DOMAIN base THEN base[k] ELSE inc[k]]

\* Object.assign({}, base, inc)
Assign(base, inc) ==
    [k \in DOMAIN base \cup DOMAIN inc |->
        IF k \in DOMAIN inc THEN inc[k] ELSE base[k]]

-----------------------------------------------------------------------------
(* Requests *)

NoPayload == [present |-> FALSE, obj |-> [k \in {} |-> UndefV]]

\* the payload objects a caller supplies in the model: a string for a key of
\* the base map, a null for another, a number and a boolean for keys the base
\* map does or does not have
P_override == [callId |-> StrV("c9"), callerName |-> NullV, custom |-> NumV(7)]
Payloads ==
    {NoPayload} \cup {[present |-> TRUE, obj |-> o] : 
         o \in {P_override, [type |-> NumV(2), flag |-> BoolV(TRUE)]}}

\* req.body || {} : every field of a missing body is undefined
EmptyBody ==
    [ callId |-> Undefined, channelName |-> Undefined, callerUid |-> Undefined,
      callerName |-> Undefined, recipientId |-> Undefined,
      agoraAppId |-> Undefined, agoraToken |-> Undefined,
      callType |-> Undefined, payload |-> NoPayload ]

BodyOf(q) == IF q.hasBody THEN q.body ELSE EmptyBody

\* a validation that forgets recipientId
MissingRequired_NoRecipient(b) ==
    Falsy(b.callId) \/ Falsy(b.channelName) \/ Falsy(b.callerUid)

\* !callId || !channelName || !callerUid || !recipientId
MissingRequired(b) ==
    Falsy(b.callId) \/ Falsy(b.channelName) \/ Falsy(b.callerUid) \/ Falsy(b.recipientId)

\* const { ..., callType = "video", ... } : the default applies to undefined only
CallTypeOf(b) == IF b.callType = Undefined THEN "video" ELSE b.callType

\* every one of the four required fields of body b is a non-empty string
AllPresent(b) ==
    \A f \in {"callId", "channelName", "callerUid", "recipientId"} :
        b[f] \notin {Undefined, ""}

\* the request bodies of the model: each required field absent, empty or
\* present; the optional fields vary on the bodies with every required field
Bodies ==
    { b \in [ callId : {Undefined, "", "c1"},
              channelName : {Undefined, "", "room1"},
              callerUid : {Undefined, "", "u1"},
              callerName : {Undefined, "Al"},
              recipientId : {Undefined, "", "bob", "eve"},
              agoraAppId : {Undefined},
              agoraToken : {Undefined},
              callType : {Undefined, "audio"},
              payload : Payloads ] :
        /\ ~AllPresent(b) => (b.callerName = Undefined /\ b.callType = Undefined)
        /\ b.payload.present =>
              (AllPresent(b) /\ b.recipientId = "bob" /\ b.callType = Undefined) }

Origins == {NoStr, O_local5173, O_evil}

Requests ==
    { q \in [ method : {"POST", "OPTIONS", "GET"},
              origin : Origins,
              acr : {<<>>, <<"x-custom">>},
              hasBody : BOOLEAN,
              body : Bodies ] :
        /\ ~q.hasBody => q.body = EmptyBody
        /\ q.acr # <<>> => (q.method = "OPTIONS" /\ ~q.hasBody)
        /\ q.body.payload.present => (q.method = "POST" /\ q.origin = NoStr)
        /\ q.origin # NoStr => (~q.hasBody \/ AllPresent(q.body)) }

-----------------------------------------------------------------------------
(* The document store *)

\* the profiles a "user" document may hold
Profiles ==
    [ platform : {NoStr, EmptyStr, S_ios, S_IOS, S_iOS, S_android, S_web},
      voipToken : {Undefined, "VTOK"},
      fcmToken : {Undefined, "", "TOK"},
      userId : {Undefined},
      name : {"Bob"},
      imageUrl : {Undefined} ]

UserDoc(username, data) == [username |-> username, data |-> data]

\* a query that drops the where clause
QueryUser_Any(recipientId) == users

\* db.collection("user").where("username", "==", recipientId).limit(1).get()
\* the documents the query may return
QueryUser(recipientId) == {d \in users : d.username = recipientId}

\* a write that merges into the stored document instead of replacing it:
\* the fields naming the caller are kept from the document already there
SetRoom_Merge(id, data) ==
    [k \in DOMAIN rooms \cup {id} |->
        IF k # id THEN rooms[k]
        ELSE IF id \in DOMAIN rooms
               THEN [data EXCEPT !.callerUid = rooms[id].callerUid,
                                 !.callerName = rooms[id].callerName]
               ELSE data]

\* a write that files the record under its callId
SetRoom_ByCallId(id, data) ==
    [k \in DOMAIN rooms \cup {data.callId} |->
        IF k = data.callId THEN data ELSE rooms[k]]

\* a write that keeps the document already stored under the id
SetRoom_IfAbsent(id, data) ==
    [k \in DOMAIN rooms \cup {id} |-> IF k \in DOMAIN rooms THEN rooms[k] ELSE data]

\* db.collection("room").doc(id).set(data): an overwrite of the document
SetRoom(id, data) ==
    [k \in DOMAIN rooms \cup {id} |-> IF k = id THEN data ELSE rooms[k]]

\* a record left by an earlier invitation
OldRoom ==
    [ channelName |-> "room1", callId |-> "c0", callerUid |-> "u0",
      callerName |-> "u0", recipientId |-> "bob", createdBy |-> "u0",
      createdAt |-> 0, isActive |-> TRUE, callType |-> "video",
      platform |-> "web", agoraAppId |-> "ENV_APP_ID", agoraToken |-> Null ]

\* the errors a collaborator call may throw
StoreReadError == [message |-> "read failed", code |-> "unavailable"]
StoreWriteError == [message |-> "write failed", code |-> "unavailable"]
SendError == [message |-> "send failed", code |-> "messaging/invalid-argument"]

-----------------------------------------------------------------------------
(* The main handler: src/api/sendCallInvitation.js, lines 121-504 *)

NoLocals ==
    [ startTime |-> 0, logs |-> <<>>, b |-> EmptyBody, callType |-> "video",
      recipientData |-> NullObj, fcmToken |-> Undefined, voipToken |-> Undefined,
      platform |-> NoStr, mergedPayload |-> [k \in {} |-> UndefV],
      notificationResults |-> [voip |-> NullObj, fcm |-> NullObj] ]

NoResponse == [headers |-> NoHeaders, sent |-> <<>>]

\* a response that is sent twice
Send_Twice(r, status, body) ==
    [res EXCEPT ![r].sent = @ \o << [status |-> status, body |-> body],
                                    [status |-> status, body |-> body] >>]

\* res.status(status).json(body) / res.status(status).end()
Send(r, status, body) ==
    [res EXCEPT ![r].sent = Append(@, [status |-> status, body |-> body])]

\* the body of res.end()
NoBody == [empty |-> TRUE]

\* log(message): the entry pushed onto logs
Log(logs, message) == Append(logs, message)

\* lines 485-503: the catch block
Catch(r, l, err) ==
    LET logs == Log(l.logs, "CRITICAL ERROR")
        body == IF DEBUG
                  THEN [error |-> Or(err.message, "Internal server error"),
                        logs |-> logs, stack |-> <<"stack">>]
                  ELSE [error |-> Or(err.message, "Internal server error"),
                        logs |-> logs]
    IN  /\ loc' = [loc EXCEPT ![r] = [l EXCEPT !.logs = logs]]
        /\ res' = [res EXCEPT
                     ![r].headers = buildCorsHeaders(req[r].origin, req[r].acr),
                     ![r].sent = Append(@, [status |-> 500, body |-> body])]
        /\ pc' = [pc EXCEPT ![r] = "done"]

\* a handler that answers without the CORS headers
SetCors_Skipped(r, q) == res

\* lines 135-138: the CORS headers are set on the response, first of all
SetCors(r, q) ==
    [res EXCEPT ![r].headers = buildCorsHeaders(q.origin, q.acr)]

\* a method check that lets GET through
MethodAllowed_Get(m) == m \in {"POST", "GET"}

\* line 145: req.method !== "POST" is answered 405
MethodAllowed(m) == m = "POST"

\* lines 121-197: CORS headers, method check, validation
Receive(r, q) ==
    /\ pc[r] = "idle"
    /\ req' = [req EXCEPT ![r] = q]
    /\ LET withHdrs == SetCors(r, q)
           b == BodyOf(q)
           l0 == [NoLocals EXCEPT !.startTime = now]
       IN  IF q.method = "OPTIONS" THEN
               /\ loc' = [loc EXCEPT ![r] =
                            [l0 EXCEPT !.logs = <<"Preflight OPTIONS request received">>]]
               /\ res' = [withHdrs EXCEPT ![r].sent =
                            Append(@, [status |-> 204, body |-> NoBody])]
               /\ pc' = [pc EXCEPT ![r] = "done"]
           ELSE IF ~MethodAllowed(q.method) THEN
               LET logs == <<"Invalid method">>
               IN  /\ loc' = [loc EXCEPT ![r] = [l0 EXCEPT !.logs = logs]]
                   /\ res' = [withHdrs EXCEPT ![r].sent =
                                Append(@, [status |-> 405,
                                           body |-> [error |-> "Method not allowed",
                                                     logs |-> logs]])]
                   /\ pc' = [pc EXCEPT ![r] = "done"]
           ELSE
               LET logs1 == <<"Call Invitation Request Started",
                              "Request body received">>
                   l1 == [l0 EXCEPT !.b = b, !.callType = CallTypeOf(b)]
               IN  IF MissingRequired(b) THEN
                       LET logs == Log(logs1, "Missing required fields")
                       IN  /\ loc' = [loc EXCEPT ![r] = [l1 EXCEPT !.logs = logs]]
                           /\ res' = [withHdrs EXCEPT ![r].sent =
                                Append(@, [status |-> 400,
                                           body |-> [error |-> "Missing required fields",
                                                     required |-> <<"callId", "channelName",
                                                                    "callerUid", "recipientId">>,
                                                     received |-> [callId |-> b.callId,
                                                                   channelName |-> b.channelName,
                                                                   callerUid |-> b.callerUid,
                                                                   recipientId |-> b.recipientId],
                                                     logs |-> logs]])]
                           /\ pc' = [pc EXCEPT ![r] = "done"]
                   ELSE
                       /\ loc' = [loc EXCEPT ![r] =
                                    [l1 EXCEPT !.logs =
                                       logs1 \o <<"All required fields present",
                                                  "Fetching recipient from Firestore">>]]
                       /\ res' = withHdrs
                       /\ pc' = [pc EXCEPT ![r] = "lookup"]
    /\ UNCHANGED <<env, users, rooms, now, trace, outbox>>


\* lines 231-244: the document written to the "room" collection
RoomRecord(l) ==
    [ channelName |-> l.b.channelName,
      callId |-> l.b.callId,
      callerUid |-> l.b.callerUid,
      callerName |-> Or(l.b.callerName, l.b.callerUid),
      recipientId |-> l.b.recipientId,
      createdBy |-> l.b.callerUid,
      createdAt |-> now,
      isActive |-> TRUE,
      callType |-> l.callType,
      platform |-> "web",
      agoraAppId |-> Or(l.b.agoraAppId, EnvAgoraAppId),
      agoraToken |-> Or(l.b.agoraToken, Null) ]

\* lines 251-289
basePayload(l) ==
    LET b == l.b
        d == l.recipientData
        appId == OfStr(Or(b.agoraAppId, EnvAgoraAppId))
    IN  [ callId |-> StrV(b.callId),
          channelName |-> StrV(b.channelName),
          webrtcRoomId |-> StrV(b.channelName),
          callerUid |-> StrV(b.callerUid),
          callerName |-> StrV(Or(b.callerName, b.callerUid)),
          userId |-> StrV(Or(d.userId, b.recipientId)),
          username |-> StrV(b.recipientId),
          name |-> StrV(Or(d.name, b.recipientId)),
          imageUrl |-> StrV(Or(d.imageUrl, "")),
          fcmToken |-> StrV(Or(l.fcmToken, "")),
          callAction |-> StrV("join"),
          callType |-> StrV(l.callType),
          agoraAppId |-> appId,
          agoraToken |-> StrV(Or(b.agoraToken, "")),
          agoraChannelName |-> StrV(b.channelName),
          id |-> StrV(b.callId),
          nameCaller |-> StrV(Or(b.callerName, b.callerUid)),
          avatar |-> StrV(Or(d.imageUrl, "")),
          handle |-> StrV(b.callerUid),
          type |-> NumV(IF l.callType = "video" THEN 1 ELSE 0),
          duration |-> NumV(30000),
          textAccept |-> StrV("Accept"),
          textDecline |-> StrV("Decline"),
          missedCallNotification |->
              ObjV(<< <<"showNotification", BoolV(TRUE)>>, <<"count", NumV(1)>> >>),
          extra |->
              ObjV(<< <<"agoraAppId", appId>>,
                      <<"agoraToken", StrV(Or(b.agoraToken, ""))>>,
                      <<"channelName", StrV(b.channelName)>> >>) ]

\* a payload that carries the room name in place of the call id
mergedPayloadOf_RoomAsCallId(l) ==
    [basePayload(l) EXCEPT !.callId = StrV(l.b.channelName)]

\* line 291
mergedPayloadOf(l) ==
    Assign(basePayload(l), IF l.b.payload.present THEN l.b.payload.obj
                           ELSE [k \in {} |-> UndefV])

\* lines 320-341
voipMessage(l) ==
    [ token |-> l.voipToken,
      data |-> normalizeDataMapForIOS(l.mergedPayload),
      apns |-> [ headers |-> [ topic |-> ApnsVoipTopic, pushType |-> "voip",
                               priority |-> "10" ],
                 payload |-> [ aps |->
                    [ alert |-> [ title |-> Or(l.b.callerName, l.b.callerUid) \o " is calling",
                                  body |-> "Incoming " \o l.callType \o " call" ],
                      badge |-> 1, sound |-> "default", contentAvailable |-> 1 ] ] ] ]

\* lines 377-427
fcmMessage(l) ==
    [ token |-> l.fcmToken,
      notification |-> [ title |-> Or(l.b.callerName, l.b.callerUid) \o " is calling",
                         body |-> "Tap to answer " \o l.callType \o " call" ],
      data |-> IF l.platform = S_ios THEN normalizeDataMapForIOS(l.mergedPayload)
               ELSE normalizeDataMapForAndroid(l.mergedPayload),
      android |-> [ priority |-> "high",
                    notification |-> [ channelId |-> "calls", priority |-> "max",
                                       tag |-> l.b.callId,
                                       clickAction |-> "FLUTTER_NOTIFICATION_CLICK",
                                       visibility |-> "public", sound |-> "default" ],
                    ttl |-> 60000 ],
      apns |-> [ headers |-> [ priority |-> "10", pushType |-> "alert" ],
                 payload |-> [ aps |->
                    [ alert |-> [ title |-> Or(l.b.callerName, l.b.callerUid) \o " is calling",
                                  body |-> "Tap to answer " \o l.callType \o " call" ],
                      badge |-> 1, sound |-> "default", category |-> "CALL_CATEGORY",
                      contentAvailable |-> 1, mutableContent |-> 1 ] ] ] ]

\* a summary that reports an attempted push as sent
SuccessOf_Attempted(x) == x # NullObj

\* x?.success || false
SuccessOf(x) == IF x = NullObj THEN FALSE ELSE x.success

\* a response that reports success whatever the pushes did
overallSuccess_Always(nr) == BoolV(TRUE)

\* line 466: notificationResults.voip?.success || notificationResults.fcm?.success
overallSuccess(nr) ==
    IF SuccessOf(nr.voip) THEN BoolV(TRUE)
    ELSE IF nr.fcm = NullObj THEN UndefV
    ELSE BoolV(nr.fcm.success)

\* lines 459-483: the success response
Respond200(r, l) ==
    LET duration == now - l.startTime
        logs == Log(l.logs, "Call Invitation Request Completed")
        nr == l.notificationResults
        body == [ success |-> overallSuccess(nr),
                  channelName |-> l.b.channelName,
                  callId |-> l.b.callId,
                  platform |-> l.platform,
                  notifications |-> nr,
                  summary |-> [ voipSent |-> SuccessOf(nr.voip),
                                fcmSent |-> SuccessOf(nr.fcm),
                                recipient |-> l.b.recipientId,
                                caller |-> Or(l.b.callerName, l.b.callerUid),
                                callType |-> l.callType,
                                durationMs |-> duration ],
                  logs |-> logs ]
    IN  /\ loc' = [loc EXCEPT ![r] = [l EXCEPT !.logs = logs]]
        /\ res' = Send(r, 200, body)
        /\ pc' = [pc EXCEPT ![r] = "done"]

\* a VoIP test that forgets the platform
wantsVoip_AnyPlatform(l) == Truthy(l.voipToken)

\* line 307: the VoIP push is sent
wantsVoip(l) == l.platform = S_ios /\ Truthy(l.voipToken)

\* the FCM push as the else branch of the VoIP push
wantsFcm_ElseIf(l) == Truthy(l.fcmToken) /\ ~(l.platform = S_ios /\ Truthy(l.voipToken))

\* an FCM test that takes the empty string for a token
wantsFcm_Defined(l) == l.fcmToken # Undefined

\* line 370: the FCM push is sent
wantsFcm(l) == Truthy(l.fcmToken)

\* lines 369-387 and 451-457: from the FCM test up to the FCM send, or to
\* the response when there is no FCM token
FcmStage(r, l) ==
    IF wantsFcm(l) THEN
        /\ loc' = [loc EXCEPT ![r] =
                     [l EXCEPT !.logs = l.logs \o <<"Preparing FCM notification",
                                                     "FCM data types",
                                                     "Sending FCM notification...">>]]
        /\ pc' = [pc EXCEPT ![r] = "fcm"]
        /\ res' = res
    ELSE
        Respond200(r, [l EXCEPT
                         !.logs = Log(l.logs, "No FCM token available for recipient"),
                         !.notificationResults.fcm =
                             [success |-> FALSE, error |-> "No FCM token available"]])

\* lines 199-229: the recipient query returns or throws
Lookup(r) ==
    /\ pc[r] = "lookup"
    /\ LET l == loc[r]
       IN  \/ /\ trace' = [trace EXCEPT ![r] = Append(@, [op |-> "read", ok |-> FALSE])]
              /\ Catch(r, l, StoreReadError)
           \/ /\ trace' = [trace EXCEPT ![r] = Append(@, [op |-> "read", ok |-> TRUE])]
              /\ IF QueryUser(l.b.recipientId) = {} THEN
                     LET logs == Log(l.logs, "Recipient not found")
                     IN  /\ loc' = [loc EXCEPT ![r] = [l EXCEPT !.logs = logs]]
                         /\ res' = Send(r, 404, [error |-> "Recipient not found",
                                                 username |-> l.b.recipientId,
                                                 logs |-> logs])
                         /\ pc' = [pc EXCEPT ![r] = "done"]
                 ELSE
                     \E d \in QueryUser(l.b.recipientId) :
                        /\ loc' = [loc EXCEPT ![r] =
                              [l EXCEPT
                                 !.recipientData = d.data,
                                 !.fcmToken = d.data.fcmToken,
                                 !.voipToken = d.data.voipToken,
                                 !.platform = ToLowerCase(IF FalsyStr(d.data.platform)
                                                            THEN S_android
                                                            ELSE d.data.platform),
                                 !.logs = l.logs \o <<"Recipient found",
                                                      "Saving call metadata to Firestore">>]]
                        /\ res' = res
                        /\ pc' = [pc EXCEPT ![r] = "write"]
    /\ UNCHANGED <<env, users, rooms, now, req, outbox>>

\* lines 246-344: after the write, the payload is built and the first push
\* is chosen
Dispatch(r, l) ==
    LET l1 == [l EXCEPT
                 !.logs = l.logs \o <<"Call metadata saved to Firestore",
                                      "Building notification payload",
                                      "Payload built">>,
                 !.mergedPayload = mergedPayloadOf(l),
                 !.notificationResults = [voip |-> NullObj, fcm |-> NullObj]]
    IN  IF wantsVoip(l1) THEN
            /\ loc' = [loc EXCEPT ![r] =
                  [l1 EXCEPT !.logs = l1.logs \o
                      <<"Preparing iOS VoIP notification",
                        "iOS VoIP data types",
                        "Sending iOS VoIP notification...">>]]
            /\ pc' = [pc EXCEPT ![r] = "voip"]
            /\ res' = res
        ELSE IF l1.platform = S_ios THEN
            FcmStage(r, [l1 EXCEPT !.logs =
                Log(l1.logs, "iOS platform but no VoIP token available")])
        ELSE FcmStage(r, l1)

\* a write whose error is swallowed
WriteThrows_Swallowed(r, l) ==
    /\ trace' = [trace EXCEPT ![r] =
                    Append(@, [op |-> "write", ok |-> FALSE, data |-> RoomRecord(l)])]
    /\ rooms' = rooms
    /\ Dispatch(r, l)

\* a write that is tried once more after its first failure
WriteThrows_Retried(r, l) ==
    /\ trace' = [trace EXCEPT ![r] =
                    Append(@, [op |-> "write", ok |-> FALSE, data |-> RoomRecord(l)])]
    /\ rooms' = rooms
    /\ IF Len(trace[r]) < 2
         THEN UNCHANGED <<pc, loc, res>>
         ELSE Catch(r, l, StoreWriteError)

\* lines 231-244 and 485: set() throws, the error reaches the catch block
WriteThrows(r, l) ==
    /\ trace' = [trace EXCEPT ![r] =
                    Append(@, [op |-> "write", ok |-> FALSE, data |-> RoomRecord(l)])]
    /\ rooms' = rooms
    /\ Catch(r, l, StoreWriteError)

\* a write that is not awaited: dispatch starts before it has returned
WriteReturns_NoAwait(r, l) ==
    /\ trace' = trace
    /\ rooms' = rooms
    /\ Dispatch(r, l)

\* lines 231-246: set() returns, the document is overwritten
WriteReturns(r, l) ==
    /\ trace' = [trace EXCEPT ![r] =
                    Append(@, [op |-> "write", ok |-> TRUE, data |-> RoomRecord(l)])]
    /\ rooms' = SetRoom(l.b.channelName, RoomRecord(l))
    /\ Dispatch(r, l)

\* lines 231-344: the room record write returns or throws; on return the
\* payload is built and the first push is chosen
Write(r) ==
    /\ pc[r] = "write"
    /\ WriteThrows(r, loc[r]) \/ WriteReturns(r, loc[r])
    /\ UNCHANGED <<env, users, now, req, outbox>>

\* lines 345-352: messaging.send(voipMessage) returns
VoipReturns(r, l) ==
    /\ trace' = [trace EXCEPT ![r] = Append(@, [op |-> "voip", ok |-> TRUE])]
    /\ FcmStage(r, [l EXCEPT
           !.logs = Log(l.logs, "iOS VoIP notification sent successfully"),
           !.notificationResults.voip =
               [success |-> TRUE, messageId |-> "mid-voip",
                platform |-> "ios", type |-> "voip"]])

\* a VoIP send whose error is rethrown to the catch block
VoipThrows_Rethrown(r, l) ==
    /\ trace' = [trace EXCEPT ![r] = Append(@, [op |-> "voip", ok |-> FALSE])]
    /\ Catch(r, l, SendError)

\* a VoIP failure after which the request is answered without the FCM push
VoipThrows_SkipsFcm(r, l) ==
    /\ trace' = [trace EXCEPT ![r] = Append(@, [op |-> "voip", ok |-> FALSE])]
    /\ Respond200(r, [l EXCEPT
           !.notificationResults.voip =
               [success |-> FALSE, error |-> SendError.message,
                code |-> SendError.code],
           !.notificationResults.fcm =
               [success |-> FALSE, error |-> "No FCM token available"]])

\* lines 353-364: messaging.send(voipMessage) throws, the error is caught at
\* the call site
VoipThrows(r, l) ==
    /\ trace' = [trace EXCEPT ![r] = Append(@, [op |-> "voip", ok |-> FALSE])]
    /\ FcmStage(r, [l EXCEPT
           !.logs = Log(l.logs, "iOS VoIP notification failed"),
           !.notificationResults.voip =
               [success |-> FALSE, error |-> SendError.message,
                code |-> SendError.code]])

\* lines 343-364: the VoIP push
VoipSend(r) ==
    /\ pc[r] = "voip"
    /\ outbox' = [outbox EXCEPT ![r] =
                     Append(@, [kind |-> "voip", msg |-> voipMessage(loc[r])])]
    /\ VoipReturns(r, loc[r]) \/ VoipThrows(r, loc[r])
    /\ UNCHANGED <<env, users, rooms, now, req>>

\* lines 431-438: messaging.send(fcmMessage) returns
FcmReturns(r, l) ==
    /\ trace' = [trace EXCEPT ![r] = Append(@, [op |-> "fcm", ok |-> TRUE])]
    /\ Respond200(r, [l EXCEPT
           !.logs = Log(l.logs, "FCM notification sent successfully"),
           !.notificationResults.fcm =
               [success |-> TRUE, messageId |-> "mid-fcm",
                platform |-> l.platform, type |-> "fcm"]])

\* lines 439-450: messaging.send(fcmMessage) throws, the error is caught at
\* the call site
FcmThrows(r, l) ==
    /\ trace' = [trace EXCEPT ![r] = Append(@, [op |-> "fcm", ok |-> FALSE])]
    /\ Respond200(r, [l EXCEPT
           !.logs = Log(l.logs, "FCM notification failed"),
           !.notificationResults.fcm =
               [success |-> FALSE, error |-> SendError.message,
                code |-> SendError.code]])

\* lines 429-483: the FCM push, then the request is answered
FcmSend(r) ==
    /\ pc[r] = "fcm"
    /\ outbox' = [outbox EXCEPT ![r] =
                     Append(@, [kind |-> "fcm", msg |-> fcmMessage(loc[r])])]
    /\ FcmReturns(r, loc[r]) \/ FcmThrows(r, loc[r])
    /\ UNCHANGED <<env, users, rooms, now, req>>

\* the wall clock advances
Tick ==
    /\ now < MaxClock
    /\ now' = now + 1
    /\ UNCHANGED <<env, users, rooms, pc, req, loc, res, trace, outbox>>

-----------------------------------------------------------------------------
(* One invocation of the main handler *)

Init ==
    /\ env \in [DEBUG_CORS : {Undefined, "true"}, AGORA_APP_ID : {"ENV_APP_ID"}]
    /\ users \in {{UserDoc("bob", p)} : p \in Profiles}
    /\ rooms \in {[k \in {} |-> OldRoom], [k \in {"room1"} |-> OldRoom]}
    /\ now = 0
    /\ pc = [r \in Reqs |-> "idle"]
    /\ req = [r \in Reqs |-> [ method |-> "", origin |-> NoStr, acr |-> <<>>,
                               hasBody |-> FALSE, body |-> EmptyBody ]]
    /\ loc = [r \in Reqs |-> NoLocals]
    /\ res = [r \in Reqs |-> NoResponse]
    /\ trace = [r \in Reqs |-> <<>>]
    /\ outbox = [r \in Reqs |-> <<>>]

Next ==
    \/ \E q \in Requests : Receive(1, q)
    \/ Lookup(1)
    \/ Write(1)
    \/ VoipSend(1)
    \/ FcmSend(1)
    \/ Tick

Spec == Init /\ [][Next]_vars

\* every awaited call of the invocation eventually returns or throws
Fairness ==
    /\ WF_vars(Lookup(1))
    /\ WF_vars(Write(1))
    /\ WF_vars(VoipSend(1))
    /\ WF_vars(FcmSend(1))

SpecLive == Init /\ [][Next]_vars /\ Fairness

-----------------------------------------------------------------------------
(* The same request served twice, the second after the first was answered *)

SeqRequests ==
    { q \in Requests :
        /\ q.method = "POST" /\ q.hasBody /\ AllPresent(q.body)
        /\ q.origin = NoStr /\ q.body.recipientId = "bob" }

\* the client repeats the request once the first one is answered
Again ==
    /\ pc[1] = "done"
    /\ Receive(2, req[1])

NextSeq ==
    \/ \E q \in SeqRequests : Receive(1, q)
    \/ Again
    \/ \E r \in Reqs : Lookup(r)
    \/ \E r \in Reqs : Write(r)
    \/ \E r \in Reqs : VoipSend(r)
    \/ \E r \in Reqs : FcmSend(r)
    \/ Tick

SpecSeq == Init /\ [][NextSeq]_vars

-----------------------------------------------------------------------------
(* Two invocations in flight at once, for the same room *)

\* the valid requests of the two callers: the same channelName and
\* recipient; the second caller uses the same or another callId
ConcRequests(r) ==
    [ method : {"POST"}, origin : {NoStr}, acr : {<<>>}, hasBody : {TRUE},
      body : { [EmptyBody EXCEPT !.callId = c, !.channelName = "room1",
                                 !.callerUid = u, !.callerName = n,
                                 !.recipientId = "bob"] :
                 c \in (IF r = 1 THEN {"c1"} ELSE {"c1", "c2"}),
                 u \in (IF r = 1 THEN {"u1"} ELSE {"u2"}),
                 n \in (IF r = 1 THEN {"Al"} ELSE {Undefined}) } ]

NextConc ==
    \/ \E r \in Reqs : \E q \in ConcRequests(r) : Receive(r, q)
    \/ \E r \in Reqs : Lookup(r)
    \/ \E r \in Reqs : Write(r)
    \/ \E r \in Reqs : VoipSend(r)
    \/ \E r \in Reqs : FcmSend(r)
    \/ Tick

SpecConc == Init /\ [][NextConc]_vars

-----------------------------------------------------------------------------
(* buildCorsHeaders on its own: requests that are answered in the first step *)

NextCors ==
    \E q \in [ method : {"OPTIONS", "GET", "POST"},
               origin : CorsOrigins,
               acr : {<<>>},
               hasBody : {FALSE},
               body : {EmptyBody} ] : Receive(1, q)

SpecCors == Init /\ [][NextCors]_vars

-----------------------------------------------------------------------------
(* The APNs-provider revision of the handler: src/unnamed/part_002, 88-289 *)

\* obj[k] || dflt, for a key that may be absent
GetOr(obj, k, dflt) ==
    LET truthy(x) ==
            CASE x.t = "string" -> x.v # ""
              [] x.t = "number" -> x.v # 0
              [] x.t = "boolean" -> x.v
              [] x.t = "object" -> TRUE
              [] OTHER -> FALSE
    IN  IF k \in DOMAIN obj /\ truthy(obj[k]) THEN obj[k] ELSE dflt

\* part_002 lines 88-97
normalizeDataMap(obj) ==
    [k \in KeptKeys(obj) |->
        IF obj[k].t = "string" THEN obj[k]
        ELSE IF obj[k].t = "object" THEN StrV(JsonStringify(obj[k]))
        ELSE StrV(String(obj[k]))]

\* part_002 lines 105-126: the notification built by sendApnsVoipPush
apnsNotification(voipToken, payload, callType, callerName, callId) ==
    [ token |-> voipToken,
      topic |-> "bma.agora.poc.voip",
      pushType |-> "voip",
      payload |-> [ id |-> StrV(callId),
                    nameCaller |-> StrV(Or(callerName, "Caller")),
                    handle |-> GetOr(payload, "handle", StrV(callId)),
                    type |-> GetOr(payload, "type", NumV(1)),
                    extra |-> GetOr(payload, "extra", ObjV(<<>>)) ],
      alert |-> [ title |-> Or(callerName, "Caller") \o " is calling",
                  body |-> "Tap to answer " \o Or(callType, "video") \o " call" ],
      badge |-> 1, sound |-> "default", category |-> "CALL_CATEGORY" ]

\* part_002 lines 219-233
apnsBasePayload(l) ==
    LET b == l.b
    IN  [ id |-> StrV(b.callId),
          nameCaller |-> StrV(Or(b.callerName, b.callerUid)),
          handle |-> StrV(b.callerUid),
          type |-> NumV(IF l.callType = "video" THEN 1 ELSE 0),
          callAction |-> StrV("create"),
          extra |-> ObjV(<< <<"agoraAppId", OfStr(Or(b.agoraAppId, EnvAgoraAppId))>>,
                            <<"agoraToken", StrV(Or(b.agoraToken, ""))>>,
                            <<"channelName", StrV(b.channelName)>>,
                            <<"callerUid", StrV(b.callerUid)>>,
                            <<"recipientId", StrV(b.recipientId)>> >>) ]

\* part_002 lines 246-255
apnsFcmMessage(l) ==
    [ token |-> l.fcmToken,
      notification |-> [ title |-> Or(l.b.callerName, l.b.callerUid) \o " is calling",
                         body |-> "Tap to answer " \o l.callType \o " call" ],
      data |-> normalizeDataMap(l.mergedPayload),
      android |-> [ priority |-> "high", ttl |-> 60000 ],
      apns |-> [ headers |-> [ priority |-> "10" ] ] ]

\* part_002 lines 281-288: the catch block
ApnsCatch(r, err) ==
    /\ res' = Send(r, 500,
                   IF req[r].hasBody
                     THEN [error |-> err.message, stack |-> <<"stack">>,
                           body |-> req[r].body]
                     ELSE [error |-> err.message, stack |-> <<"stack">>])
    /\ pc' = [pc EXCEPT ![r] = "done"]
    /\ loc' = loc

\* part_002 lines 263-279: the success response
ApnsRespond200(r, l, pushResult) ==
    /\ res' = Send(r, 200,
                   [ success |-> TRUE,
                     channelName |-> l.b.channelName,
                     callId |-> l.b.callId,
                     recipient |-> [ platform |-> l.platform,
                                     hasFCM |-> Truthy(l.fcmToken),
                                     hasVoIP |-> Truthy(l.voipToken),
                                     pushResult |-> pushResult ],
                     debug |-> [ recipientTokens |-> [ fcmToken |-> Truthy(l.fcmToken),
                                                       voipToken |-> Truthy(l.voipToken) ],
                                 payloadSent |-> l.mergedPayload ] ])
    /\ pc' = [pc EXCEPT ![r] = "done"]
    /\ loc' = [loc EXCEPT ![r] = l]

\* part_002 lines 143-182: CORS headers, method check, validation
ApnsReceive(r, q) ==
    /\ pc[r] = "idle"
    /\ req' = [req EXCEPT ![r] = q]
    /\ LET withHdrs == [res EXCEPT ![r].headers = buildCorsHeaders(q.origin, <<>>)]
           b == BodyOf(q)
           l1 == [NoLocals EXCEPT !.b = b, !.callType = CallTypeOf(b)]
       IN  IF q.method = "OPTIONS" THEN
               /\ res' = [withHdrs EXCEPT ![r].sent =
                            Append(@, [status |-> 204, body |-> NoBody])]
               /\ pc' = [pc EXCEPT ![r] = "done"]
               /\ loc' = loc
           ELSE IF q.method # "POST" THEN
               /\ res' = [withHdrs EXCEPT ![r].sent =
                            Append(@, [status |-> 405,
                                       body |-> [error |-> "Method not allowed"]])]
               /\ pc' = [pc EXCEPT ![r] = "done"]
               /\ loc' = loc
           ELSE IF MissingRequired(b) THEN
               /\ res' = [withHdrs EXCEPT ![r].sent =
                            Append(@, [status |-> 400,
                                       body |-> IF q.hasBody
                                                  THEN [error |-> "Missing required fields",
                                                        received |-> q.body]
                                                  ELSE [error |-> "Missing required fields"]])]
               /\ pc' = [pc EXCEPT ![r] = "done"]
               /\ loc' = [loc EXCEPT ![r] = l1]
           ELSE
               /\ res' = withHdrs
               /\ pc' = [pc EXCEPT ![r] = "a_lookup"]
               /\ loc' = [loc EXCEPT ![r] = l1]
    /\ UNCHANGED <<env, users, rooms, now, trace, outbox>>

\* part_002 lines 183-206: the recipient query returns or throws
ApnsLookup(r) ==
    /\ pc[r] = "a_lookup"
    /\ LET l == loc[r]
       IN  \/ /\ trace' = [trace EXCEPT ![r] = Append(@, [op |-> "read", ok |-> FALSE])]
              /\ ApnsCatch(r, StoreReadError)
           \/ /\ trace' = [trace EXCEPT ![r] = Append(@, [op |-> "read", ok |-> TRUE])]
              /\ IF QueryUser(l.b.recipientId) = {} THEN
                     /\ res' = Send(r, 404, [error |-> "Recipient not found"])
                     /\ pc' = [pc EXCEPT ![r] = "done"]
                     /\ loc' = loc
                 ELSE
                     \E d \in QueryUser(l.b.recipientId) :
                        /\ loc' = [loc EXCEPT ![r] =
                              [l EXCEPT
                                 !.recipientData = d.data,
                                 !.fcmToken = d.data.fcmToken,
                                 !.voipToken = d.data.voipToken,
                                 !.platform = ToLowerCase(IF FalsyStr(d.data.platform)
                                                            THEN S_android
                                                            ELSE d.data.platform)]]
                        /\ res' = res
                        /\ pc' = [pc EXCEPT ![r] = "a_write"]
    /\ UNCHANGED <<env, users, rooms, now, req, outbox>>

\* part_002 lines 209-261: the room record write returns or throws; on return
\* the payload is built and the push is chosen
ApnsWrite(r) ==
    /\ pc[r] = "a_write"
    /\ LET l == loc[r]
       IN  \/ /\ trace' = [trace EXCEPT ![r] = Append(@, [op |-> "write", ok |-> FALSE, data |-> RoomRecord(l)])]
              /\ rooms' = rooms
              /\ ApnsCatch(r, StoreWriteError)
           \/ /\ trace' = [trace EXCEPT ![r] = Append(@, [op |-> "write", ok |-> TRUE, data |-> RoomRecord(l)])]
              /\ rooms' = SetRoom(l.b.channelName, RoomRecord(l))
              /\ LET l1 == [l EXCEPT !.mergedPayload =
                              Assign(apnsBasePayload(l),
                                     IF l.b.payload.present THEN l.b.payload.obj
                                     ELSE [k \in {} |-> UndefV])]
                 IN  IF l1.platform = S_ios /\ Truthy(l1.voipToken) THEN
                         /\ loc' = [loc EXCEPT ![r] = l1]
                         /\ pc' = [pc EXCEPT ![r] = "a_voip"]
                         /\ res' = res
                     ELSE IF Truthy(l1.fcmToken) THEN
                         /\ loc' = [loc EXCEPT ![r] = l1]
                         /\ pc' = [pc EXCEPT ![r] = "a_fcm"]
                         /\ res' = res
                     ELSE ApnsRespond200(r, l1, NullV)
    /\ UNCHANGED <<env, users, now, req, outbox>>

\* part_002 lines 99-141 and 243: sendApnsVoipPush; apnProvider.send resolves
\* (reporting the device as sent or as failed) or rejects, and a rejection is
\* logged and rethrown to the handler's catch block
sendApnsVoipPush(r) ==
    /\ pc[r] = "a_voip"
    /\ LET l == loc[r]
           n == apnsNotification(l.voipToken, l.mergedPayload, l.callType,
                                 l.b.callerName, l.b.callId)
       IN  /\ outbox' = [outbox EXCEPT ![r] = Append(@, [kind |-> "voip", msg |-> n])]
           /\ \/ /\ trace' = [trace EXCEPT ![r] = Append(@, [op |-> "voip", ok |-> TRUE])]
                 /\ ApnsRespond200(r, l,
                        ObjV(<< <<"sent", StrV(l.voipToken)>>, <<"failed", StrV("")>> >>))
              \/ /\ trace' = [trace EXCEPT ![r] = Append(@, [op |-> "voip", ok |-> FALSE])]
                 /\ ApnsRespond200(r, l,
                        ObjV(<< <<"sent", StrV("")>>, <<"failed", StrV(l.voipToken)>> >>))
              \/ /\ trace' = [trace EXCEPT ![r] = Append(@, [op |-> "voip", ok |-> FALSE])]
                 /\ ApnsCatch(r, SendError)
    /\ UNCHANGED <<env, users, rooms, now, req>>

\* part_002 lines 244-258: messaging.send(fcmMessage) returns or throws; the
\* call is not wrapped, so an error reaches the handler's catch block
ApnsFcmSend(r) ==
    /\ pc[r] = "a_fcm"
    /\ LET l == loc[r]
       IN  /\ outbox' = [outbox EXCEPT ![r] =
                            Append(@, [kind |-> "fcm", msg |-> apnsFcmMessage(l)])]
           /\ \/ /\ trace' = [trace EXCEPT ![r] = Append(@, [op |-> "fcm", ok |-> TRUE])]
                 /\ ApnsRespond200(r, l, StrV("mid-fcm"))
              \/ /\ trace' = [trace EXCEPT ![r] = Append(@, [op |-> "fcm", ok |-> FALSE])]
                 /\ ApnsCatch(r, SendError)
    /\ UNCHANGED <<env, users, rooms, now, req>>

NextApns ==
    \/ \E q \in Requests : ApnsReceive(1, q)
    \/ ApnsLookup(1)
    \/ ApnsWrite(1)
    \/ sendApnsVoipPush(1)
    \/ ApnsFcmSend(1)
    \/ Tick

SpecApns == Init /\ [][NextApns]_vars

-----------------------------------------------------------------------------
(* The minimal revision of the handler: src/unnamed/part_003, lines 13-159 *)


\* part_003 line 13
P3_ALLOWED_ORIGINS ==
    { <<"h","t","t","p","s",":","/","/","y","o","u","r","-","d","o","m","a","i","n",".","c","o","m">>,
      O_local5173 }

\* setCorsHeaders(res, origin): the four headers it sets
setCorsHeaders(origin) ==
    [ AllowOrigin |-> IF FalsyStr(origin) THEN H_star ELSE origin,
      AllowCredentials |-> "true",
      Vary |-> Undefined,
      AllowMethods |-> "POST, OPTIONS",
      AllowHeaders |-> <<"Content-Type", "Authorization">>,
      MaxAge |-> Undefined ]

\* setCorsHeaders(res, ALLOWED_ORIGINS.includes(origin) ? origin : "*")
P3SetCors(r, origin) ==
    [res EXCEPT ![r].headers =
        setCorsHeaders(IF origin \in P3_ALLOWED_ORIGINS THEN origin ELSE H_star)]

\* `${v}` for a string, undefined or null
Template(v) ==
    IF v = Undefined THEN "undefined" ELSE IF v = Null THEN "null" ELSE v

\* !callId || !channelName || !callerUid || !recipientId
P3MissingRequired(b) ==
    Falsy(b.callId) \/ Falsy(b.channelName) \/ Falsy(b.callerUid) \/ Falsy(b.recipientId)

\* db.collection("users").doc(recipientId).get(): the documents of the model
\* are identified by the value they hold as username
GetUser(recipientId) == {d \in users : d.username = recipientId}

\* the requests of the model; this revision reads neither the payload nor
\* the Access-Control-Request-Headers header
P3Requests == {q \in Requests : ~q.body.payload.present /\ q.acr = <<>>}

\* the catch block: res.status(500).json({ error: err.message })
P3Catch(r, err) ==
    /\ res' = Send(r, 500, [error |-> err.message])
    /\ pc' = [pc EXCEPT ![r] = "done"]

\* lines 25-38: preflight, CORS headers, method check, validation
P3Receive(r, q) ==
    /\ pc[r] = "idle"
    /\ req' = [req EXCEPT ![r] = q]
    /\ LET withHdrs == P3SetCors(r, q.origin)
           reply(status, body) ==
               /\ res' = [withHdrs EXCEPT ![r].sent =
                            Append(@, [status |-> status, body |-> body])]
               /\ pc' = [pc EXCEPT ![r] = "done"]
               /\ loc' = loc
       IN  IF q.method = "OPTIONS" THEN reply(204, NoBody)
           ELSE IF q.method # "POST" THEN reply(405, [error |-> "Method not allowed"])
           ELSE IF ~q.hasBody THEN
               \* destructuring undefined throws a TypeError inside the try
               reply(500, [error |-> "Cannot destructure property of undefined"])
           ELSE IF P3MissingRequired(q.body) THEN
               reply(400, [error |-> "Missing required fields"])
           ELSE
               /\ loc' = [loc EXCEPT ![r] = [NoLocals EXCEPT !.b = q.body]]
               /\ res' = withHdrs
               /\ pc' = [pc EXCEPT ![r] = "p3_lookup"]
    /\ UNCHANGED <<env, users, rooms, now, trace, outbox>>

\* lines 40-47: the recipient document is fetched, or the fetch throws
P3Lookup(r) ==
    /\ pc[r] = "p3_lookup"
    /\ LET l == loc[r]
       IN  \/ /\ trace' = [trace EXCEPT ![r] = Append(@, [op |-> "read", ok |-> FALSE])]
              /\ P3Catch(r, StoreReadError)
              /\ loc' = loc
           \/ /\ trace' = [trace EXCEPT ![r] = Append(@, [op |-> "read", ok |-> TRUE])]
              /\ IF GetUser(l.b.recipientId) = {} THEN
                     /\ res' = Send(r, 404, [error |-> "Recipient not found"])
                     /\ pc' = [pc EXCEPT ![r] = "done"]
                     /\ loc' = loc
                 ELSE
                     \E d \in GetUser(l.b.recipientId) :
                         /\ loc' = [loc EXCEPT ![r] =
                               [l EXCEPT
                                  !.recipientData = d.data,
                                  !.fcmToken = d.data.fcmToken,
                                  !.voipToken = d.data.voipToken,
                                  !.platform = IF FalsyStr(d.data.platform)
                                                 THEN S_android ELSE d.data.platform]]
                         /\ res' = res
                         /\ pc' = [pc EXCEPT ![r] = "p3_write"]
    /\ UNCHANGED <<env, users, rooms, now, req, outbox>>

\* lines 49-57: the document written to the "calls" collection
P3CallRecord(l) ==
    [ callId |-> l.b.callId,
      channelName |-> l.b.channelName,
      callerUid |-> l.b.callerUid,
      callerName |-> Or(l.b.callerName, l.b.callerUid),
      recipientId |-> l.b.recipientId,
      status |-> "ringing",
      timestamp |-> now ]

\* lines 76-99: the message of sendVoIPPush(voipToken, callId, channelName,
\* callerUid, callerName)
P3VoipMessage(voipToken, callId, channelName, callerUid, callerName) ==
    [ token |-> voipToken,
      data |-> [ callId |-> OfStr(callId), channelName |-> OfStr(channelName),
                 callerUid |-> OfStr(callerUid), callerName |-> OfStr(callerName),
                 type |-> StrV("voip_incoming_call") ],
      apns |-> [ headers |-> [ topic |-> "com.example.agora_callkit_video_call.voip",
                               pushType |-> "voip", priority |-> "10" ],
                 payload |-> [ aps |->
                    [ alert |-> [ title |-> Template(callerName) \o " is calling",
                                  body |-> "Incoming video call" ],
                      badge |-> 1, sound |-> "default", contentAvailable |-> 1 ] ] ] ]

\* lines 111-150: the message of sendFCMPush(fcmToken, callId, channelName,
\* callerUid, callerName)
P3FcmMessage(fcmToken, callId, channelName, callerUid, callerName) ==
    [ token |-> fcmToken,
      notification |-> [ title |-> Template(callerName) \o " is calling",
                         body |-> "Tap to answer video call" ],
      data |-> [ callId |-> OfStr(callId), channelName |-> OfStr(channelName),
                 callerUid |-> OfStr(callerUid), callerName |-> OfStr(callerName),
                 type |-> StrV("incoming_call"),
                 click_action |-> StrV("FLUTTER_NOTIFICATION_CLICK") ],
      android |-> [ priority |-> "high",
                    notification |-> [ channelId |-> "calls", priority |-> "max",
                                       tag |-> callId,
                                       clickAction |-> "FLUTTER_NOTIFICATION_CLICK",
                                       visibility |-> "public", sound |-> "default" ],
                    ttl |-> 60000 ],
      apns |-> [ headers |-> [ priority |-> "10" ],
                 payload |-> [ aps |->
                    [ alert |-> [ title |-> Template(callerName) \o " is calling",
                                  body |-> "Tap to answer video call" ],
                      badge |-> 1, sound |-> "default", category |-> "CALL_CATEGORY",
                      contentAvailable |-> 1 ] ] ] ]

\* lines 63-67: the FCM push when there is an fcmToken, then the response
P3FcmStage(r, l) ==
    IF Truthy(l.fcmToken) THEN
        /\ pc' = [pc EXCEPT ![r] = "p3_fcm"]
        /\ res' = res
    ELSE
        /\ res' = Send(r, 200, [success |-> TRUE])
        /\ pc' = [pc EXCEPT ![r] = "done"]

\* lines 49-61: set() returns or throws; on return the first push is chosen
P3Write(r) ==
    /\ pc[r] = "p3_write"
    /\ LET l == loc[r]
       IN  \/ /\ trace' = [trace EXCEPT ![r] =
                    Append(@, [op |-> "write", ok |-> FALSE, data |-> P3CallRecord(l)])]
              /\ rooms' = rooms
              /\ P3Catch(r, StoreWriteError)
           \/ /\ trace' = [trace EXCEPT ![r] =
                    Append(@, [op |-> "write", ok |-> TRUE, data |-> P3CallRecord(l)])]
              /\ rooms' = SetRoom(l.b.callId, P3CallRecord(l))
              /\ IF l.platform = S_ios /\ Truthy(l.voipToken) THEN
                     /\ pc' = [pc EXCEPT ![r] = "p3_voip"]
                     /\ res' = res
                 ELSE P3FcmStage(r, l)
    /\ UNCHANGED <<env, users, now, req, loc, outbox>>

\* lines 60 and 76-107: sendVoIPPush; the error of a failed send is logged
\* and swallowed
sendVoIPPush(r) ==
    /\ pc[r] = "p3_voip"
    /\ LET l == loc[r]
       IN  /\ outbox' = [outbox EXCEPT ![r] =
                Append(@, [kind |-> "voip",
                           msg |-> P3VoipMessage(l.voipToken, l.b.callId, l.b.channelName,
                                                 l.b.callerUid, l.b.callerName)])]
           /\ \E ok \in BOOLEAN :
                 trace' = [trace EXCEPT ![r] = Append(@, [op |-> "voip", ok |-> ok])]
           /\ P3FcmStage(r, l)
    /\ UNCHANGED <<env, users, rooms, now, req, loc>>

\* lines 64 and 110-159: sendFCMPush; the error of a failed send is logged
\* and swallowed
sendFCMPush(r) ==
    /\ pc[r] = "p3_fcm"
    /\ LET l == loc[r]
       IN  /\ outbox' = [outbox EXCEPT ![r] =
                Append(@, [kind |-> "fcm",
                           msg |-> P3FcmMessage(l.fcmToken, l.b.callId, l.b.channelName,
                                                l.b.callerUid, l.b.callerName)])]
           /\ \E ok \in BOOLEAN :
                 trace' = [trace EXCEPT ![r] = Append(@, [op |-> "fcm", ok |-> ok])]
           /\ res' = Send(r, 200, [success |-> TRUE])
           /\ pc' = [pc EXCEPT ![r] = "done"]
    /\ UNCHANGED <<env, users, rooms, now, req, loc>>

NextP3 ==
    \/ \E q \in P3Requests : P3Receive(1, q)
    \/ P3Lookup(1)
    \/ P3Write(1)
    \/ sendVoIPPush(1)
    \/ sendFCMPush(1)
    \/ Tick

SpecP3 == Init /\ [][NextP3]_vars

-----------------------------------------------------------------------------
(* The payload revision of the handler: src/unnamed/part_001, lines 18-243 *)

\* part_001 lines 18-26
P1_ALLOWED_ORIGINS == {O_flirtbate, O_yourapp}

\* part_001 lines 35-77
P1buildCorsHeaders(origin, requested) ==
    LET allowedFromEnv == ~FalsyStr(origin) /\ origin \in P1_ALLOWED_ORIGINS
        allowLocal == isLocalhostOrigin(origin)
        echo == ~FalsyStr(origin) /\ (allowedFromEnv \/ allowLocal)
    IN  [ AllowOrigin |-> IF echo THEN origin
                          ELSE IF FalsyStr(origin) THEN H_star
                          ELSE H_null,
          AllowCredentials |-> IF echo THEN "true" ELSE Undefined,
          Vary |-> "Origin",
          AllowMethods |-> "POST,OPTIONS",
          AllowHeaders |-> Dedupe(defaultAllowedHeaders \o requested),
          MaxAge |-> "3600" ]

\* part_001 lines 80-89
P1normalizeDataMap(obj) ==
    [k \in KeptKeys(obj) |->
        IF obj[k].t = "string" THEN obj[k]
        ELSE IF obj[k].t = "object" THEN StrV(JsonStringify(obj[k]))
        ELSE StrV(String(obj[k]))]

\* a preflight that is answered without a body whatever DEBUG_CORS is
P1PreflightBody_Quiet(q, corsHeaders) == NoBody

\* lines 99-102: the body handed to the 204 response of a preflight
P1PreflightBody(q, corsHeaders) ==
    IF DEBUG
      THEN [ debug |-> TRUE, message |-> "preflight", incomingOrigin |-> q.origin,
             acrHeaders |-> q.acr, corsHeaders |-> corsHeaders ]
      ELSE NoBody

\* lines 237-243: the catch block
P1Catch(r, err) ==
    /\ res' = [res EXCEPT
                 ![r].headers = P1buildCorsHeaders(req[r].origin, req[r].acr),
                 ![r].sent = Append(@,
                    [status |-> 500,
                     body |-> IF DEBUG
                                THEN [error |-> Or(err.message, "Internal server error"),
                                      stack |-> <<"stack">>]
                                ELSE [error |-> "Internal server error"]])]
    /\ pc' = [pc EXCEPT ![r] = "done"]

\* lines 91-125: CORS headers, preflight, method check, validation
P1Receive(r, q) ==
    /\ pc[r] = "idle"
    /\ req' = [req EXCEPT ![r] = q]
    /\ LET corsHeaders == P1buildCorsHeaders(q.origin, q.acr)
           withHdrs == [res EXCEPT ![r].headers = corsHeaders]
           b == BodyOf(q)
           reply(status, body) ==
               /\ res' = [withHdrs EXCEPT ![r].sent =
                            Append(@, [status |-> status, body |-> body])]
               /\ pc' = [pc EXCEPT ![r] = "done"]
               /\ loc' = loc
       IN  IF q.method = "OPTIONS" THEN reply(204, P1PreflightBody(q, corsHeaders))
           ELSE IF q.method # "POST" THEN reply(405, [error |-> "Method not allowed"])
           ELSE IF MissingRequired(b) THEN
               IF DEBUG
                 THEN reply(400, [error |-> "Missing required fields",
                                  body |-> IF q.hasBody THEN q.body ELSE NullObj,
                                  corsHeaders |-> corsHeaders])
                 ELSE reply(400, [error |-> "Missing required fields"])
           ELSE
               /\ loc' = [loc EXCEPT ![r] = [NoLocals EXCEPT !.b = b]]
               /\ res' = withHdrs
               /\ pc' = [pc EXCEPT ![r] = "p1_lookup"]
    /\ UNCHANGED <<env, users, rooms, now, trace, outbox>>

\* lines 128-141: the recipient query returns or throws
P1Lookup(r) ==
    /\ pc[r] = "p1_lookup"
    /\ LET l == loc[r]
       IN  \/ /\ trace' = [trace EXCEPT ![r] = Append(@, [op |-> "read", ok |-> FALSE])]
              /\ P1Catch(r, StoreReadError)
              /\ loc' = loc
           \/ /\ trace' = [trace EXCEPT ![r] = Append(@, [op |-> "read", ok |-> TRUE])]
              /\ IF QueryUser(l.b.recipientId) = {} THEN
                     /\ res' = Send(r, 404,
                                  IF DEBUG
                                    THEN [error |-> "Recipient not found",
                                          corsHeaders |-> res[r].headers]
                                    ELSE [error |-> "Recipient not found"])
                     /\ pc' = [pc EXCEPT ![r] = "done"]
                     /\ loc' = loc
                 ELSE
                     \E d \in QueryUser(l.b.recipientId) :
                         /\ loc' = [loc EXCEPT ![r] =
                               [l EXCEPT
                                  !.recipientData = d.data,
                                  !.fcmToken = d.data.fcmToken,
                                  !.voipToken = d.data.voipToken,
                                  !.platform = ToLowerCase(
                                      IF FalsyStr(d.data.platform)
                                        THEN S_android ELSE d.data.platform)]]
                         /\ res' = res
                         /\ pc' = [pc EXCEPT ![r] = "p1_write"]
    /\ UNCHANGED <<env, users, rooms, now, req, outbox>>

\* lines 144-152: the document written to the "calls" collection
P1CallRecord(l) ==
    [ callId |-> l.b.callId,
      channelName |-> l.b.channelName,
      callerUid |-> l.b.callerUid,
      callerName |-> Or(l.b.callerName, l.b.callerUid),
      recipientId |-> l.b.recipientId,
      status |-> "ringing",
      timestamp |-> now ]

\* lines 157-165: basePayload overlaid with the incoming payload
P1mergedPayload(l) ==
    LET inc == IF l.b.payload.present THEN l.b.payload.obj
               ELSE [k \in {} |-> UndefV]
    IN  Assign([ callId |-> StrV(l.b.callId),
                 channelName |-> StrV(l.b.channelName),
                 callerUid |-> StrV(l.b.callerUid),
                 callerName |-> StrV(Or(l.b.callerName, l.b.callerUid)),
                 callAction |-> GetOr(inc, "callAction", StrV("create")) ],
               inc)

\* lines 169-187
P1voipMessage(l) ==
    [ token |-> l.voipToken,
      data |-> P1normalizeDataMap(l.mergedPayload),
      apns |-> [ headers |-> [ topic |-> ApnsVoipTopic, pushType |-> "voip",
                               priority |-> "10" ],
                 payload |-> [ aps |->
                    [ alert |-> [ title |-> Or(l.b.callerName, l.b.callerUid) \o " is calling",
                                  body |-> "Incoming video call" ],
                      badge |-> 1, sound |-> "default", contentAvailable |-> 1 ] ] ] ]

\* lines 198-219
P1fcmMessage(l) ==
    [ token |-> l.fcmToken,
      notification |-> [ title |-> Or(l.b.callerName, l.b.callerUid) \o " is calling",
                         body |-> "Tap to answer video call" ],
      data |-> P1normalizeDataMap(l.mergedPayload),
      android |-> [ priority |-> "high",
                    notification |-> [ channelId |-> "calls", priority |-> "max",
                                       tag |-> l.b.callId,
                                       click_action |-> "FLUTTER_NOTIFICATION_CLICK",
                                       visibility |-> "public", sound |-> "default" ],
                    ttl |-> 60000 ],
      apns |-> [ headers |-> [ priority |-> "10" ],
                 payload |-> [ aps |->
                    [ alert |-> [ title |-> Or(l.b.callerName, l.b.callerUid) \o " is calling",
                                  body |-> "Tap to answer video call" ],
                      badge |-> 1, sound |-> "default", category |-> "CALL_CATEGORY",
                      contentAvailable |-> 1 ] ] ] ]

\* lines 232-235: the success response
P1Respond200(r, l) ==
    /\ res' = Send(r, 200,
                 IF DEBUG
                   THEN [ success |-> TRUE,
                          debug |-> [ corsHeaders |-> res[r].headers,
                                      incomingOrigin |-> req[r].origin,
                                      payloadSent |-> l.mergedPayload ] ]
                   ELSE [ success |-> TRUE ])
    /\ pc' = [pc EXCEPT ![r] = "done"]

\* lines 197-235: the FCM push when there is an fcmToken, then the response
P1FcmStage(r, l) ==
    IF Truthy(l.fcmToken) THEN
        /\ pc' = [pc EXCEPT ![r] = "p1_fcm"]
        /\ res' = res
    ELSE P1Respond200(r, l)

\* lines 144-168: set() returns or throws; on return the payload is merged
\* and the first push is chosen
P1Write(r) ==
    /\ pc[r] = "p1_write"
    /\ LET l == loc[r]
           l1 == [l EXCEPT !.mergedPayload = P1mergedPayload(l)]
       IN  \/ /\ trace' = [trace EXCEPT ![r] =
                    Append(@, [op |-> "write", ok |-> FALSE, data |-> P1CallRecord(l)])]
              /\ rooms' = rooms
              /\ loc' = loc
              /\ P1Catch(r, StoreWriteError)
           \/ /\ trace' = [trace EXCEPT ![r] =
                    Append(@, [op |-> "write", ok |-> TRUE, data |-> P1CallRecord(l)])]
              /\ rooms' = SetRoom(l.b.callId, P1CallRecord(l))
              /\ loc' = [loc EXCEPT ![r] = l1]
              /\ IF l.platform = S_ios /\ Truthy(l.voipToken) THEN
                     /\ pc' = [pc EXCEPT ![r] = "p1_voip"]
                     /\ res' = res
                 ELSE P1FcmStage(r, l1)
    /\ UNCHANGED <<env, users, now, req, outbox>>

\* lines 168-194: messaging.send(voipMessage) returns or throws; the error
\* is logged and swallowed
P1VoipSend(r) ==
    /\ pc[r] = "p1_voip"
    /\ outbox' = [outbox EXCEPT ![r] =
                     Append(@, [kind |-> "voip", msg |-> P1voipMessage(loc[r])])]
    /\ \E ok \in BOOLEAN :
          trace' = [trace EXCEPT ![r] = Append(@, [op |-> "voip", ok |-> ok])]
    /\ P1FcmStage(r, loc[r])
    /\ UNCHANGED <<env, users, rooms, now, req, loc>>

\* lines 197-235: messaging.send(fcmMessage) returns or throws; the error is
\* logged and swallowed
P1FcmSend(r) ==
    /\ pc[r] = "p1_fcm"
    /\ outbox' = [outbox EXCEPT ![r] =
                     Append(@, [kind |-> "fcm", msg |-> P1fcmMessage(loc[r])])]
    /\ \E ok \in BOOLEAN :
          trace' = [trace EXCEPT ![r] = Append(@, [op |-> "fcm", ok |-> ok])]
    /\ P1Respond200(r, loc[r])
    /\ UNCHANGED <<env, users, rooms, now, req, loc>>

-----------------------------------------------------------------------------
(* The two CORS-enabled handlers side by side: invocation 1 is served by  *)
(* the main handler, invocation 2, after it, by the part_001 revision     *)

PreRequests ==
    { q \in Requests :
        \/ q.method = "OPTIONS" /\ ~q.hasBody
        \/ q.origin = NoStr /\ ~q.hasBody
        \/ /\ q.origin = NoStr /\ q.method = "POST" /\ q.hasBody
           /\ q.body.recipientId \in {"", "bob", "eve"}
           /\ q.body.callerName = Undefined /\ q.body.callType = Undefined
           /\ q.body.callId = "c1" /\ q.body.channelName = "room1"
           /\ q.body.callerUid = "u1" }

NextPre ==
    \/ \E q \in PreRequests : Receive(1, q)
    \/ Lookup(1)
    \/ Write(1)
    \/ VoipSend(1)
    \/ FcmSend(1)
    \/ \E q \in PreRequests : pc[1] = "done" /\ P1Receive(2, q)
    \/ P1Lookup(2)
    \/ P1Write(2)
    \/ P1VoipSend(2)
    \/ P1FcmSend(2)
    \/ Tick

SpecPre == Init /\ [][NextPre]_vars

-----------------------------------------------------------------------------
(* The token endpoint: src/api/  token.js.  The file holds two handlers:   *)
(* the plain one of lines 3-16 and the agoraToken handler of lines 100-177 *)
(* with its own CORS policy (lines 37-98).  The handlers are synchronous;  *)
(* the one collaborator call is RtcTokenBuilder.buildTokenWithUid, which   *)
(* returns a token or throws.                                              *)

\* the number that is not one
NaN == [t |-> "NaN", v |-> 0]

\* a || b on the character-sequence strings
OrStr(a, b) == IF FalsyStr(a) THEN b ELSE a

\* the value of a sequence of decimal digits
RECURSIVE DigitsValue(_)
DigitsValue(s) ==
    LET val(c) == CHOOSE n \in 0..9 :
                      <<"0","1","2","3","4","5","6","7","8","9">>[n + 1] = c
    IN  IF s = <<>> THEN 0
        ELSE 10 * DigitsValue(SubSeq(s, 1, Len(s) - 1)) + val(s[Len(s)])

\* parseInt(s, 10): leading white space, an optional sign, then the longest
\* run of digits; NaN when there is no digit
parseInt(s) ==
    LET ws == Cardinality({i \in DOMAIN s : \A j \in 1..i : s[j] = " "})
        t == Drop(s, ws)
        signed == t # <<>> /\ t[1] \in {"-", "+"}
        u == IF signed THEN Tail(t) ELSE t
        n == Cardinality({i \in DOMAIN u : \A j \in 1..i : u[j] \in Digits})
        mag == DigitsValue(SubSeq(u, 1, n))
    IN  IF n = 0 THEN NaN
        ELSE IF signed /\ t[1] = "-" THEN NumV(0 - mag) ELSE NumV(mag)

NoQuery ==
    [ channel |-> Undefined, room |-> Undefined, channelName |-> Undefined,
      uid |-> NoStr, user |-> NoStr, u |-> NoStr ]

\* the requests to the token endpoint, with the query parameters the
\* handlers read
TokenRequests ==
    { q \in [ method : {"GET", "POST", "OPTIONS"},
              origin : Origins,
              acr : {<<>>, <<"x-custom">>},
              query : [ channel : {Undefined, "", "room1"},
                        room : {Undefined, "room2"},
                        channelName : {Undefined, "room3"},
                        uid : { NoStr, EmptyStr, <<"7">>, <<" ">>, <<" ", "8">>,
                                <<"-", "3">>, <<"x">>, <<"4", "2", "a">> },
                        user : {NoStr, <<"9">>},
                        u : {NoStr, <<"5">>} ] ] :
        /\ (q.query.user # NoStr \/ q.query.u # NoStr)
              => q.query.uid \in {NoStr, EmptyStr}
        /\ q.acr # <<>> => q.method = "OPTIONS"
        /\ q.method # "GET" => q.query = NoQuery
        /\ q.origin # NoStr => (q.query.uid = NoStr /\ q.query.user = NoStr
                                /\ q.query.u = NoStr) }

\* the locals of a token handler; lines 12-13 and 156-157: the expiry time
\* is Math.floor(Date.now() / 1000) + expirationSeconds
TokenLocals(APP_ID, APP_CERT, channel, finalUid, expirationSeconds) ==
    [ APP_ID |-> APP_ID, APP_CERT |-> APP_CERT, channel |-> channel,
      finalUid |-> finalUid, role |-> "PUBLISHER",
      expirationSeconds |-> expirationSeconds,
      privilegeExpiredTs |-> IF expirationSeconds = NaN THEN NaN
                             ELSE NumV((now \div 1000) + expirationSeconds.v) ]

\* the arguments of buildTokenWithUid (lines 14 and 159)
BuildArgs(l) ==
    [ appId |-> l.APP_ID, appCert |-> l.APP_CERT, channel |-> l.channel,
      uid |-> l.finalUid, role |-> l.role, expire |-> l.privilegeExpiredTs ]

\* lines 11 and 131: parseInt(process.env.TOKEN_EXPIRY_SECONDS || "600", 10)
expirationSecondsOf(e) == parseInt(OrStr(e.TOKEN_EXPIRY_SECONDS, <<"6", "0", "0">>))

\* lines 15 and 162-167: the success body
TokenBody(token, l) ==
    [ token |-> token, channelName |-> l.channel, uid |-> l.finalUid,
      expires_in |-> l.expirationSeconds ]

\* lines 3-13 of the plain handler: method check, parameters, expiry
T1Receive(r, q) ==
    /\ pc[r] = "idle"
    /\ req' = [req EXCEPT ![r] = q]
    /\ LET APP_ID == env.AGORA_APP_ID
           APP_CERT == env.AGORA_APP_CERT
           channel == q.query.channel
           uid == q.query.uid
           finalUid == IF FalsyStr(uid) THEN NumV(0) ELSE parseInt(uid)
           expirationSeconds == expirationSecondsOf(env)
       IN  IF q.method # "GET" THEN
               /\ res' = Send(r, 405, [error |-> "Method not allowed"])
               /\ pc' = [pc EXCEPT ![r] = "done"]
               /\ loc' = loc
           ELSE IF Falsy(channel) \/ Falsy(APP_ID) \/ Falsy(APP_CERT) THEN
               /\ res' = Send(r, 400, [error |-> "Missing params"])
               /\ pc' = [pc EXCEPT ![r] = "done"]
               /\ loc' = loc
           ELSE
               /\ loc' = [loc EXCEPT ![r] =
                     TokenLocals(APP_ID, APP_CERT, channel, finalUid,
                                 expirationSeconds)]
               /\ res' = res
               /\ pc' = [pc EXCEPT ![r] = "t1_build"]
    /\ UNCHANGED <<env, users, rooms, now, trace, outbox>>

\* lines 14-15: buildTokenWithUid returns, and the token is sent with the
\* default status 200, or throws, and the exception leaves the handler with
\* no response sent
T1Build(r) ==
    /\ pc[r] = "t1_build"
    /\ \/ /\ trace' = [trace EXCEPT ![r] =
                Append(@, [op |-> "build", ok |-> FALSE, data |-> BuildArgs(loc[r])])]
          /\ res' = res
          /\ pc' = [pc EXCEPT ![r] = "threw"]
       \/ /\ trace' = [trace EXCEPT ![r] =
                Append(@, [op |-> "build", ok |-> TRUE, data |-> BuildArgs(loc[r])])]
          /\ res' = Send(r, 200, TokenBody("TOKEN", loc[r]))
          /\ pc' = [pc EXCEPT ![r] = "done"]
    /\ UNCHANGED <<env, users, rooms, now, req, loc, outbox>>

\* lines 37-98: the allow-list and buildCorsHeaders
ATbuildCorsHeaders(origin, requested) ==
    LET ALLOWED == {O_flirtbate, O_yourapp}
        allowedFromEnv == ~FalsyStr(origin) /\ origin \in ALLOWED
        allowLocal == isLocalhostOrigin(origin)
        echo == ~FalsyStr(origin) /\ (allowedFromEnv \/ allowLocal)
    IN  [ AllowOrigin |-> IF echo THEN origin
                          ELSE IF FalsyStr(origin) THEN H_star
                          ELSE H_null,
          AllowCredentials |-> IF echo THEN "true" ELSE Undefined,
          Vary |-> "Origin",
          AllowMethods |-> "GET,OPTIONS",
          AllowHeaders |-> Dedupe(defaultAllowedHeaders \o requested),
          MaxAge |-> "3600" ]

\* a channel lookup that knows the channel parameter only
ATchannel_ChannelOnly(y) == y.channel

\* line 133: req.query.channel || req.query.room || req.query.channelName
ATchannel(y) == Or(y.channel, Or(y.room, y.channelName))

\* lines 134 and 147-153: uidRaw is req.query.uid || req.query.user ||
\* req.query.u; the uid is 0 unless uidRaw, trimmed, is not empty and parses
\* to a number >= 0
ATfinalUid(y) ==
    LET uidRaw == OrStr(y.uid, OrStr(y.user, y.u))
        blank == \A i \in DOMAIN uidRaw : uidRaw[i] = " "
        parsed == parseInt(uidRaw)
    IN  IF uidRaw # NoStr /\ ~blank /\ parsed # NaN /\ parsed.v >= 0
          THEN parsed ELSE NumV(0)

\* lines 100-157 of the agoraToken handler: CORS headers, preflight, method
\* check, parameters and environment, uid, expiry
ATReceive(r, q) ==
    /\ pc[r] = "idle"
    /\ req' = [req EXCEPT ![r] = q]
    /\ LET corsHeaders == ATbuildCorsHeaders(q.origin, q.acr)
           withHdrs == [res EXCEPT ![r].headers = corsHeaders]
           APP_ID == env.AGORA_APP_ID
           APP_CERT == env.AGORA_APP_CERT
           expirationSeconds == expirationSecondsOf(env)
           channel == ATchannel(q.query)
           reply(status, body) ==
               /\ res' = [withHdrs EXCEPT ![r].sent =
                            Append(@, [status |-> status, body |-> body])]
               /\ pc' = [pc EXCEPT ![r] = "done"]
               /\ loc' = loc
       IN  IF q.method = "OPTIONS" THEN
               IF DEBUG
                 THEN reply(204, [ debug |-> TRUE, message |-> "preflight",
                                   incomingOrigin |-> q.origin, acrHeaders |-> q.acr,
                                   corsHeaders |-> corsHeaders ])
                 ELSE reply(204, NoBody)
           ELSE IF q.method # "GET" THEN reply(405, [error |-> "Method not allowed"])
           ELSE IF Falsy(channel) \/ Falsy(APP_ID) \/ Falsy(APP_CERT) THEN
               IF DEBUG
                 THEN reply(400, [ error |-> "Missing params/env",
                                   details |-> [ channel |-> channel,
                                                 envHasAppId |-> Truthy(APP_ID),
                                                 envHasAppCert |-> Truthy(APP_CERT) ],
                                   corsHeaders |-> corsHeaders ])
                 ELSE reply(400, [error |-> "Missing params or server misconfiguration"])
           ELSE
               /\ loc' = [loc EXCEPT ![r] =
                     TokenLocals(APP_ID, APP_CERT, channel,
                                 ATfinalUid(q.query), expirationSeconds)]
               /\ res' = withHdrs
               /\ pc' = [pc EXCEPT ![r] = "at_build"]
    /\ UNCHANGED <<env, users, rooms, now, trace, outbox>>

\* lines 168-176: the catch block
ATCatch(r, err) ==
    /\ res' = [res EXCEPT
                 ![r].headers = ATbuildCorsHeaders(req[r].origin, req[r].acr),
                 ![r].sent = Append(@,
                    [status |-> 500,
                     body |-> IF DEBUG
                                THEN [error |-> Or(err.message, "Internal server error"),
                                      stack |-> <<"stack">>]
                                ELSE [error |-> "Internal server error"]])]
    /\ pc' = [pc EXCEPT ![r] = "done"]

\* lines 159-176: buildTokenWithUid returns, and the token is sent with
\* status 200, or throws into the catch block
ATBuild(r) ==
    /\ pc[r] = "at_build"
    /\ \/ /\ trace' = [trace EXCEPT ![r] =
                Append(@, [op |-> "build", ok |-> FALSE, data |-> BuildArgs(loc[r])])]
          /\ ATCatch(r, [message |-> "signing failed"])
       \/ /\ trace' = [trace EXCEPT ![r] =
                Append(@, [op |-> "build", ok |-> TRUE, data |-> BuildArgs(loc[r])])]
          /\ res' = Send(r, 200, TokenBody("TOKEN", loc[r]))
          /\ pc' = [pc EXCEPT ![r] = "done"]
    /\ UNCHANGED <<env, users, rooms, now, req, loc, outbox>>

\* the environment of the token endpoint
InitToken ==
    /\ env \in [ DEBUG_CORS : {Undefined, "true"},
                 AGORA_APP_ID : {Undefined, "ENV_APP_ID"},
                 AGORA_APP_CERT : {Undefined, "", "ENV_APP_CERT"},
                 TOKEN_EXPIRY_SECONDS :
                     {NoStr, EmptyStr, <<"6", "0">>, <<"9", "0", "s">>, <<"a", "b", "c">>} ]
    /\ users = {}
    /\ rooms = [k \in {} |-> OldRoom]
    /\ now = 0
    /\ pc = [r \in Reqs |-> "idle"]
    /\ req = [r \in Reqs |-> [method |-> "", origin |-> NoStr, acr |-> <<>>,
                              query |-> NoQuery]]
    /\ loc = [r \in Reqs |-> TokenLocals(Undefined, Undefined, Undefined,
                                         NumV(0), NumV(0))]
    /\ res = [r \in Reqs |-> NoResponse]
    /\ trace = [r \in Reqs |-> <<>>]
    /\ outbox = [r \in Reqs |-> <<>>]

\* one request to the endpoint: served as invocation 1 by the plain handler
\* or as invocation 2 by the agoraToken handler
NextToken ==
    \/ \E q \in TokenRequests : pc[2] = "idle" /\ T1Receive(1, q)
    \/ T1Build(1)
    \/ \E q \in TokenRequests : pc[1] = "idle" /\ ATReceive(2, q)
    \/ ATBuild(2)
    \/ Tick

SpecToken == InitToken /\ [][NextToken]_vars

-----------------------------------------------------------------------------
(* Properties *)

\* the positions of the calls of kind o made by invocation r
OpsOf(r, o) == {i \in DOMAIN trace[r] : trace[r][i].op = o}
\* the positions of the push sends of invocation r
PushesOf(r) == OpsOf(r, "voip") \cup OpsOf(r, "fcm")
\* the record write of invocation r has returned successfully
WroteOk(r) == \E i \in OpsOf(r, "write") : trace[r][i].ok
\* invocation r has sent exactly one response, with this status
AnsweredOnce(r, status) ==
    Len(res[r].sent) = 1 /\ res[r].sent[1].status = status
\* invocation r serves a POST whose body has the four required fields
ValidPost(r) ==
    req[r].method = "POST" /\ req[r].hasBody /\ AllPresent(req[r].body)
\* the profiles stored under the recipientId of invocation r
RecipientOf(r) ==
    {d.data : d \in {u \in users : u.username = req[r].body.recipientId}}
\* the "room" collection holds only what it held before any invitation
RoomsUntouched ==
    DOMAIN rooms \subseteq {"room1"} /\ \A k \in DOMAIN rooms : rooms[k] = OldRoom
\* platform is "ios" in some letter case
IsIos(p) == p.platform \in {S_ios, S_IOS, S_iOS}

\* C1: a POST whose body lacks callId, channelName, callerUid or recipientId
\* (absent or empty, or no body at all) is answered 400, and the invocation
\* makes no store read, no store write and no push send.
C1_MissingFieldIs400 ==
    \A r \in Reqs :
        (pc[r] # "idle" /\ req[r].method = "POST" /\ ~ValidPost(r))
        => /\ pc[r] = "done"
           /\ AnsweredOnce(r, 400)
           /\ trace[r] = <<>>
           /\ outbox[r] = <<>>
           /\ RoomsUntouched

C1_Witness ==
    \E r \in Reqs :
        /\ pc[r] = "done" /\ req[r].method = "POST"
        /\ req[r].hasBody /\ req[r].body.recipientId = ""
        /\ req[r].body.callId = "c1"
        /\ AnsweredOnce(r, 400)

\* C2: a valid POST whose recipient query returns no profile is answered 404
\* with error "Recipient not found"; no room record is written and no push
\* is sent.
C2_UnknownRecipientIs404 ==
    \A r \in Reqs :
        (/\ pc[r] = "done" /\ ValidPost(r)
         /\ RecipientOf(r) = {}
         /\ trace[r] # <<>> /\ trace[r][1].op = "read" /\ trace[r][1].ok)
        => /\ AnsweredOnce(r, 404)
           /\ res[r].sent[1].body.error = "Recipient not found"
           /\ Len(trace[r]) = 1
           /\ outbox[r] = <<>>
           /\ RoomsUntouched

C2_Witness ==
    \E r \in Reqs :
        /\ pc[r] = "done" /\ ValidPost(r)
        /\ req[r].body.recipientId = "eve"
        /\ AnsweredOnce(r, 404)

\* C3: every push send (VoIP or FCM) of an invocation comes after that
\* invocation's room record write has returned successfully.
C3_WriteBeforePush ==
    \A r \in Reqs :
        /\ \A i \in PushesOf(r) :
              \E j \in OpsOf(r, "write") : j < i /\ trace[r][j].ok
        /\ pc[r] \in {"voip", "fcm"} => WroteOk(r)
        /\ outbox[r] # <<>> => WroteOk(r)

C3_Witness ==
    \E r \in Reqs :
        /\ Len(trace[r]) = 3
        /\ trace[r][2].op = "write" /\ trace[r][2].ok
        /\ trace[r][3].op = "fcm"
        /\ Len(outbox[r]) = 1

\* C4: when the room record write throws, the request is answered 500 and no
\* push is attempted.
C4_WriteFailureIs500 ==
    \A r \in Reqs :
        (\E i \in OpsOf(r, "write") : ~trace[r][i].ok)
        => /\ pc[r] = "done"
           /\ AnsweredOnce(r, 500)
           /\ PushesOf(r) = {}
           /\ outbox[r] = <<>>
           /\ RoomsUntouched

C4_Witness ==
    \E r \in Reqs :
        /\ pc[r] = "done"
        /\ \E i \in OpsOf(r, "write") : ~trace[r][i].ok
        /\ AnsweredOnce(r, 500)
        /\ \E d \in RecipientOf(r) : Truthy(d.fcmToken) /\ Truthy(d.voipToken)

\* C5: whatever push sends fail, a request whose record was written is
\* answered 200, and the record it wrote is still in the store, unchanged.
C5_PushFailureKeepsRecord ==
    \A r \in Reqs :
        (pc[r] = "done" /\ WroteOk(r))
        => /\ AnsweredOnce(r, 200)
           /\ \A i \in OpsOf(r, "write") :
                 /\ trace[r][i].data.channelName \in DOMAIN rooms
                 /\ rooms[trace[r][i].data.channelName] = trace[r][i].data

C5_Witness ==
    \E r \in Reqs :
        /\ pc[r] = "done" /\ WroteOk(r)
        /\ \E i \in OpsOf(r, "voip") : ~trace[r][i].ok
        /\ \E i \in OpsOf(r, "fcm") : ~trace[r][i].ok
        /\ AnsweredOnce(r, 200)
        /\ rooms["room1"].callId = "c1"

\* C6: in the APNs-provider revision, a request whose VoIP or FCM send failed
\* is still answered 200.
C6_ApnsPushFailureIs200 ==
    \A r \in Reqs :
        (pc[r] = "done" /\ \E i \in PushesOf(r) : ~trace[r][i].ok)
        => AnsweredOnce(r, 200)

\* C7 as stated: no invocation performs both a VoIP send and an FCM send.
C7_OneClassOfPush ==
    \A r \in Reqs : ~(OpsOf(r, "voip") # {} /\ OpsOf(r, "fcm") # {})

\* C7 as amended: a request that reaches dispatch sends the VoIP push exactly
\* when the recipient is on ios with a VoIP token, and the FCM push exactly
\* when the recipient has an fcmToken, VoIP first; an ios recipient with both
\* tokens gets both pushes, and no class of push is sent twice.
C7_PushPerToken ==
    \A r \in Reqs :
        /\ Cardinality(OpsOf(r, "voip")) <= 1
        /\ Cardinality(OpsOf(r, "fcm")) <= 1
        /\ \A i \in OpsOf(r, "voip"), j \in OpsOf(r, "fcm") : i < j
        /\ (pc[r] = "done" /\ WroteOk(r)) =>
              \A d \in RecipientOf(r) :
                 /\ OpsOf(r, "voip") # {} <=> (IsIos(d) /\ Truthy(d.voipToken))
                 /\ OpsOf(r, "fcm") # {} <=> Truthy(d.fcmToken)

C7_Witness ==
    \E r \in Reqs :
        /\ pc[r] = "done"
        /\ Len(outbox[r]) = 2
        /\ outbox[r][1].kind = "voip" /\ outbox[r][2].kind = "fcm"
        /\ \E d \in RecipientOf(r) : d.platform = S_ios

\* C8: for a recipient whose platform is "ios" in any letter case, with a
\* VoIP token and no fcmToken, a request that reaches dispatch attempts
\* exactly one VoIP send and no FCM send.
C8_IosVoipOnly ==
    \A r \in Reqs :
        (pc[r] = "done" /\ WroteOk(r)) =>
            \A d \in RecipientOf(r) :
                (IsIos(d) /\ Truthy(d.voipToken) /\ Falsy(d.fcmToken))
                => /\ Cardinality(OpsOf(r, "voip")) = 1
                   /\ OpsOf(r, "fcm") = {}
                   /\ Len(outbox[r]) = 1
                   /\ outbox[r][1].kind = "voip"
                   /\ outbox[r][1].msg.token = d.voipToken

C8_Witness ==
    \E r \in Reqs :
        /\ pc[r] = "done"
        /\ \E d \in RecipientOf(r) :
              d.platform = S_IOS /\ Truthy(d.voipToken) /\ Falsy(d.fcmToken)
        /\ Cardinality(OpsOf(r, "voip")) = 1

\* C9: for a recipient with an fcmToken whose platform is not ios (an absent
\* platform included), a request that reaches dispatch attempts exactly one
\* FCM send, carrying android.priority "high" and notification channelId
\* "calls", and no VoIP send, even when the recipient has a voipToken.
C9_NonIosFcmOnly ==
    \A r \in Reqs :
        (pc[r] = "done" /\ WroteOk(r)) =>
            \A d \in RecipientOf(r) :
                (~IsIos(d) /\ Truthy(d.fcmToken))
                => /\ Cardinality(OpsOf(r, "fcm")) = 1
                   /\ OpsOf(r, "voip") = {}
                   /\ Len(outbox[r]) = 1
                   /\ outbox[r][1].kind = "fcm"
                   /\ outbox[r][1].msg.token = d.fcmToken
                   /\ outbox[r][1].msg.android.priority = "high"
                   /\ outbox[r][1].msg.android.notification.channelId = "calls"

C9_Witness ==
    \E r \in Reqs :
        /\ pc[r] = "done"
        /\ \E d \in RecipientOf(r) :
              d.platform = NoStr /\ Truthy(d.fcmToken) /\ Truthy(d.voipToken)
        /\ Cardinality(OpsOf(r, "fcm")) = 1

\* C10: for a recipient with no usable token (ios with neither voipToken nor
\* fcmToken, or another platform with no fcmToken), a request that reaches
\* dispatch sends no push, is answered 200, and reports notifications.fcm =
\* {success: false, error: "No FCM token available"}.
C10_NoTokenIsNotAnError ==
    \A r \in Reqs :
        (pc[r] = "done" /\ WroteOk(r)) =>
            \A d \in RecipientOf(r) :
                (\/ IsIos(d) /\ Falsy(d.voipToken) /\ Falsy(d.fcmToken)
                 \/ ~IsIos(d) /\ Falsy(d.fcmToken))
                => /\ PushesOf(r) = {}
                   /\ outbox[r] = <<>>
                   /\ AnsweredOnce(r, 200)
                   /\ res[r].sent[1].body.notifications.fcm =
                         [success |-> FALSE, error |-> "No FCM token available"]
                   /\ res[r].sent[1].body.notifications.voip = NullObj

C10_Witness ==
    \E r \in Reqs :
        /\ pc[r] = "done" /\ WroteOk(r)
        /\ \E d \in RecipientOf(r) :
              d.platform = S_android /\ Truthy(d.voipToken) /\ d.fcmToken = ""
        /\ AnsweredOnce(r, 200)

\* the origins of the model that match ^https?://(localhost|127.0.0.1)(:\d+)?$
LocalOrigins ==
    {O_local5173, O_local3000, O_lh, O_lhs, O_lhs8443, O_ip, O_ip8080, O_ips}
\* the Access-Control-Allow-Origin value expected for Origin o
ExpectedAllowOrigin(o) ==
    IF o \in {NoStr, EmptyStr} THEN H_star
    ELSE IF o \in DEFAULT_ALLOWED_ORIGINS \cup LocalOrigins THEN o
    ELSE H_null

\* C11: in every 200 response of the main handler the success field is true
\* exactly when at least one push send (VoIP or FCM) returned successfully;
\* it is false when no push was attempted or every attempted push failed.
C11_SuccessIffAPushSucceeded ==
    \A r \in Reqs :
        (pc[r] = "done" /\ AnsweredOnce(r, 200))
        => res[r].sent[1].body.success =
              BoolV(\E i \in PushesOf(r) : trace[r][i].ok)

C11_Witness ==
    \E r \in Reqs :
        /\ pc[r] = "done" /\ AnsweredOnce(r, 200)
        /\ OpsOf(r, "voip") # {} /\ OpsOf(r, "fcm") # {}
        /\ \A i \in PushesOf(r) : ~trace[r][i].ok
        /\ res[r].sent[1].body.success = BoolV(FALSE)

\* C14: every response of the main handler, on every path (204, 405, 400,
\* 404, 200, 500), carries the CORS header set computed from the request's
\* Origin (Allow-Origin, Vary, Allow-Methods, Allow-Headers, Max-Age); the
\* headers are on the response from the first step of the invocation on.
C14_EveryResponseHasCors ==
    \A r \in Reqs :
        pc[r] # "idle"
        => /\ res[r].headers.AllowOrigin = ExpectedAllowOrigin(req[r].origin)
           /\ res[r].headers.Vary = "Origin"
           /\ res[r].headers.AllowMethods = "POST,OPTIONS"
           /\ res[r].headers.AllowHeaders = defaultAllowedHeaders \o req[r].acr
           /\ res[r].headers.MaxAge = "3600"
           /\ \A i \in DOMAIN res[r].sent :
                 res[r].sent[i].status \in {204, 405, 400, 404, 200, 500}

C14_Witness ==
    \E r \in Reqs :
        /\ pc[r] = "done" /\ AnsweredOnce(r, 405)
        /\ req[r].origin = O_evil
        /\ res[r].headers.AllowOrigin = H_null
        /\ res[r].headers.Vary = "Origin"

\* C16: a request whose method is neither POST nor OPTIONS is answered 405
\* and causes no store read, no store write and no push, even when its body
\* would pass validation: the method check precedes validation and lookup.
C16_OtherMethodIs405 ==
    \A r \in Reqs :
        (pc[r] # "idle" /\ req[r].method \notin {"POST", "OPTIONS"})
        => /\ pc[r] = "done"
           /\ AnsweredOnce(r, 405)
           /\ trace[r] = <<>>
           /\ outbox[r] = <<>>
           /\ RoomsUntouched

C16_Witness ==
    \E r \in Reqs :
        /\ pc[r] = "done" /\ req[r].method = "GET"
        /\ req[r].hasBody /\ AllPresent(req[r].body)
        /\ req[r].body.recipientId = "bob"
        /\ AnsweredOnce(r, 405)

\* the payload object of the request of invocation r ({} when it has none)
CallerPayload(r) ==
    IF req[r].body.payload.present THEN req[r].body.payload.obj
    ELSE [k \in {} |-> UndefV]

\* C17: every message handed to the messaging transport by the main handler
\* (VoIP and FCM, every platform, every caller payload) has a data map whose
\* values are all strings, the base fields type and duration included.
C17_DataValuesAreStrings ==
    \A r \in Reqs :
        \A i \in DOMAIN outbox[r] :
            \A k \in DOMAIN outbox[r][i].msg.data :
                outbox[r][i].msg.data[k].t = "string"

C12_CorsPolicy ==
    \A r \in Reqs :
        pc[r] # "idle"
        => LET o == req[r].origin
               h == res[r].headers
               echoed == o \in DEFAULT_ALLOWED_ORIGINS \cup LocalOrigins
               none == o \in {NoStr, EmptyStr}
           IN  /\ echoed => h.AllowOrigin = o
               /\ none => h.AllowOrigin = H_star
               /\ (~echoed /\ ~none) => h.AllowOrigin = H_null
               /\ h.AllowOrigin = H_star => none
               /\ h.AllowCredentials = (IF echoed THEN "true" ELSE Undefined)
               /\ (req[r].method = "OPTIONS" /\ o = O_local5173)
                  => /\ AnsweredOnce(r, 204)
                     /\ h.AllowOrigin = O_local5173
                     /\ h.AllowCredentials = "true"

C12_Witness ==
    \E r \in Reqs :
        /\ pc[r] = "done"
        /\ req[r].method = "OPTIONS" /\ req[r].origin = O_local5173
        /\ AnsweredOnce(r, 204)
        /\ res[r].headers.AllowOrigin = O_local5173
        /\ res[r].headers.AllowCredentials = "true"

\* the record written by invocation r
WrittenBy(r) == trace[r][CHOOSE i \in OpsOf(r, "write") : trace[r][i].ok].data
\* both invocations of the repeated request are answered and wrote the record
BothWrote == \A r \in Reqs : pc[r] = "done" /\ WroteOk(r)

\* C20 as stated: after the same valid request was served twice in sequence,
\* the one room record of the channelName is identical, in every field and in
\* the creation timestamp too, to the record after the first request.
C20_SecondWriteIdentical ==
    BothWrote
    => /\ DOMAIN rooms = {req[1].body.channelName}
       /\ rooms[req[1].body.channelName] = WrittenBy(1)

\* C20 as amended: after the same valid request was served twice in
\* sequence there is exactly one room record of the channelName; it is the
\* record of the second write, which equals the record of the first write in
\* every field except createdAt, the clock at the second write and so not
\* earlier than the first; the pushes are not deduplicated: the second
\* request hands the same messages to the transport as the first did.
C20_SecondWriteRestamps ==
    BothWrote
    => LET ch == req[1].body.channelName
           w1 == WrittenBy(1)
           w2 == WrittenBy(2)
       IN  /\ req[2] = req[1]
           /\ DOMAIN rooms = {ch}
           /\ rooms[ch] = w2
           /\ [w2 EXCEPT !.createdAt = w1.createdAt] = w1
           /\ w2.createdAt >= w1.createdAt
           /\ Cardinality(PushesOf(2)) = Cardinality(PushesOf(1))
           /\ outbox[2] = outbox[1]

C20_Witness ==
    /\ BothWrote
    /\ WrittenBy(2).createdAt > WrittenBy(1).createdAt
    /\ rooms["room1"].createdAt = WrittenBy(2).createdAt
    /\ Len(outbox[1]) = 2 /\ Len(outbox[2]) = 2

\* C13: in the minimal revision (part_003), Access-Control-Allow-Credentials:
\* true is on a response only when its Access-Control-Allow-Origin is the
\* request's exact Origin; it never goes together with "*".
C13_CredentialsNeedExactOrigin ==
    \A r \in Reqs :
        (pc[r] # "idle" /\ res[r].headers.AllowCredentials = "true")
        => /\ res[r].headers.AllowOrigin = req[r].origin
           /\ res[r].headers.AllowOrigin # H_star

\* C19: in the minimal revision (part_003), a valid request without
\* callerName uses callerUid for the name everywhere: the record written has
\* callerName = callerUid, and the title of every push handed to the
\* transport (FCM and VoIP) is "<callerUid> is calling".
C19_CallerNameDefaults ==
    \A r \in Reqs :
        (ValidPost(r) /\ req[r].body.callerName = Undefined)
        => /\ \A i \in OpsOf(r, "write") :
                 trace[r][i].data.callerName = req[r].body.callerUid
           /\ \A i \in DOMAIN outbox[r] :
                 /\ outbox[r][i].msg.apns.payload.aps.alert.title =
                       req[r].body.callerUid \o " is calling"
                 /\ outbox[r][i].kind = "fcm"
                    => outbox[r][i].msg.notification.title =
                          req[r].body.callerUid \o " is calling"

\* the handler that serves invocation r of SpecPre is the part_001 revision
ServedByP1(r) == r = 2

\* C15 as stated: an OPTIONS request to a CORS-enabled handler (the main
\* handler and the part_001 revision) is answered 204 with no response body,
\* for every value of DEBUG_CORS, and causes no store read, no store write
\* and no push.
C15_PreflightHasNoBody ==
    \A r \in Reqs :
        (pc[r] # "idle" /\ req[r].method = "OPTIONS")
        => /\ pc[r] = "done"
           /\ AnsweredOnce(r, 204)
           /\ res[r].sent[1].body = NoBody
           /\ trace[r] = <<>>
           /\ outbox[r] = <<>>

\* C15 as amended: an OPTIONS request is answered 204 with the CORS headers
\* and causes no store read, no store write and no push; the main handler
\* gives the response no body whatever DEBUG_CORS is, and the part_001
\* revision gives it no body unless DEBUG_CORS is "true", when it hands the
\* response a debug object (debug, message "preflight", the incoming origin,
\* the requested headers and the CORS headers).
C15_PreflightBodyOnlyInDebug ==
    \A r \in Reqs :
        (pc[r] # "idle" /\ req[r].method = "OPTIONS")
        => /\ pc[r] = "done"
           /\ AnsweredOnce(r, 204)
           /\ trace[r] = <<>>
           /\ outbox[r] = <<>>
           /\ res[r].headers.AllowOrigin = ExpectedAllowOrigin(req[r].origin)
           /\ res[r].headers.AllowHeaders = defaultAllowedHeaders \o req[r].acr
           /\ IF ServedByP1(r) /\ env.DEBUG_CORS = "true"
                THEN res[r].sent[1].body =
                        [ debug |-> TRUE, message |-> "preflight",
                          incomingOrigin |-> req[r].origin,
                          acrHeaders |-> req[r].acr,
                          corsHeaders |-> res[r].headers ]
                ELSE res[r].sent[1].body = NoBody

C15_Witness ==
    /\ env.DEBUG_CORS = "true"
    /\ \A r \in Reqs : pc[r] = "done" /\ req[r].method = "OPTIONS"
    /\ req[2].origin = O_local5173
    /\ res[1].sent[1].body = NoBody
    /\ res[2].sent[1].body.debug = TRUE

\* C21: with DEBUG_CORS unset, no response of the main handler contains
\* internal diagnostic detail: no accumulated log entries, no stack trace and
\* no echo of the raw request fields.
C21_NoDiagnosticsByDefault ==
    \A r \in Reqs :
        env.DEBUG_CORS = Undefined
        => \A i \in DOMAIN res[r].sent :
              DOMAIN res[r].sent[i].body \cap {"logs", "stack", "received"} = {}

\* C24: when the VoIP send fails for an ios recipient that also has an
\* fcmToken, the FCM send is still attempted afterwards in the same request.
C24_FcmAfterVoipFailure ==
    \A r \in Reqs :
        (pc[r] = "done" /\ \E i \in OpsOf(r, "voip") : ~trace[r][i].ok)
        => \A d \in RecipientOf(r) :
              Truthy(d.fcmToken)
              => /\ \E i \in OpsOf(r, "voip"), j \in OpsOf(r, "fcm") : i < j
                 /\ \E j \in DOMAIN outbox[r] :
                       outbox[r][j].kind = "fcm" /\ outbox[r][j].msg.token = d.fcmToken
                 /\ AnsweredOnce(r, 200)

C24_Witness ==
    \E r \in Reqs :
        /\ pc[r] = "done"
        /\ \E i \in OpsOf(r, "voip") : ~trace[r][i].ok
        /\ \E j \in OpsOf(r, "fcm") : trace[r][j].ok
        /\ \E d \in RecipientOf(r) : d.platform = S_iOS /\ d.fcmToken = "TOK"

\* C26: no operation is retried: in every execution, whatever fails, there
\* is at most one recipient lookup, at most one room-record write, at most
\* one VoIP send and at most one FCM send; and an answered request that
\* passed validation and found its recipient made exactly one record write,
\* whatever tokens the recipient has.
C26_NoRetry ==
    \A r \in Reqs :
        /\ \A o \in {"read", "write", "voip", "fcm"} : Cardinality(OpsOf(r, o)) <= 1
        /\ Len(trace[r]) <= 4
        /\ (/\ pc[r] = "done" /\ ValidPost(r) /\ RecipientOf(r) # {}
            /\ \E i \in OpsOf(r, "read") : trace[r][i].ok)
           => Cardinality(OpsOf(r, "write")) = 1

C26_Witness ==
    \E r \in Reqs :
        /\ pc[r] = "done" /\ ValidPost(r)
        /\ \E d \in RecipientOf(r) : Falsy(d.fcmToken) /\ Falsy(d.voipToken)
        /\ \E i \in OpsOf(r, "write") : ~trace[r][i].ok
        /\ Cardinality(OpsOf(r, "write")) = 1
        /\ AnsweredOnce(r, 500)

\* C28: in every 200 response the notification summary reflects what was
\* attempted: notifications.voip is null exactly when no VoIP send was
\* attempted; notifications.fcm is never null and its success is true
\* exactly when an FCM send was attempted and returned; summary.voipSent and
\* summary.fcmSent equal the success flags of notifications.voip and
\* notifications.fcm (false when absent).
C28_SummaryReflectsAttempts ==
    \A r \in Reqs :
        (pc[r] = "done" /\ AnsweredOnce(r, 200))
        => LET body == res[r].sent[1].body
               voip == body.notifications.voip
               fcm == body.notifications.fcm
           IN  /\ voip = NullObj <=> OpsOf(r, "voip") = {}
               /\ voip # NullObj
                  => (voip.success <=> \E i \in OpsOf(r, "voip") : trace[r][i].ok)
               /\ fcm # NullObj
               /\ fcm.success <=> \E i \in OpsOf(r, "fcm") : trace[r][i].ok
               /\ body.summary.voipSent = (voip # NullObj /\ voip.success)
               /\ body.summary.fcmSent = fcm.success

C28_Witness ==
    \E r \in Reqs :
        /\ pc[r] = "done" /\ AnsweredOnce(r, 200)
        /\ \E i \in OpsOf(r, "voip") : trace[r][i].ok
        /\ \E i \in OpsOf(r, "fcm") : ~trace[r][i].ok
        /\ res[r].sent[1].body.summary.voipSent = TRUE
        /\ res[r].sent[1].body.summary.fcmSent = FALSE

\* C27: after any sequence of requests to the main handler the recipient
\* profiles are unchanged, the only store document a step of a request
\* changes is the room record keyed by that request's channelName, every
\* stored room record has its key as channelName, and no room record is ever
\* deleted.
C27_Frame ==
    /\ [](\A k \in DOMAIN rooms : rooms[k].channelName = k)
    /\ [][ /\ users' = users
           /\ DOMAIN rooms \subseteq DOMAIN rooms'
           /\ \A k \in DOMAIN rooms' :
                 (k \notin DOMAIN rooms \/ rooms'[k] # rooms[k])
                 => \E r \in Reqs :
                       /\ pc[r] = "write"
                       /\ k = req[r].body.channelName
                       /\ rooms'[k].callId = req[r].body.callId ]_vars

C27_Witness ==
    /\ \A r \in Reqs : pc[r] = "done" /\ AnsweredOnce(r, 200)
    /\ DOMAIN rooms = {"room1"}
    /\ rooms["room1"].channelName = "room1"
    /\ rooms["room1"].callerName = "Al"
    /\ \E d \in RecipientOf(2) : d.platform = S_web /\ d.fcmToken = "TOK"

\* C30: every invocation of the main handler ends with exactly one response,
\* of status 204, 405, 400, 404, 200 or 500, provided each store and
\* messaging call eventually returns or throws: no path sends two responses
\* and none ends, or stays pending for ever, without a response.
C30_ExactlyOneResponse ==
    /\ [](\A r \in Reqs :
            /\ Len(res[r].sent) <= 1
            /\ pc[r] = "done" <=> Len(res[r].sent) = 1
            /\ \A i \in DOMAIN res[r].sent :
                  res[r].sent[i].status \in {204, 405, 400, 404, 200, 500})
    /\ (pc[1] # "idle") ~> (pc[1] = "done" /\ Len(res[1].sent) = 1)

C30_Witness ==
    \E r \in Reqs :
        /\ pc[r] = "done" /\ Len(res[r].sent) = 1
        /\ res[r].sent[1].status = 200
        /\ Len(trace[r]) = 4
        /\ \A i \in PushesOf(r) : ~trace[r][i].ok
        /\ now = MaxClock

\* the invocations whose record write has returned
Writers == {r \in Reqs : WroteOk(r)}
\* both invocations have been answered
BothDone == \A r \in Reqs : pc[r] = "done"

\* C25: for any interleaving of two concurrent valid requests that name the
\* same channelName, once both have responded the store holds exactly one
\* room record for that channelName and it equals, field for field, the
\* record written by one of the two, the one whose write happened last:
\* every returning write leaves its own record in the store, no other step
\* changes the store, and fields of the two requests are never mixed.
C25_LastWriterWins ==
    /\ []((BothDone /\ Writers # {})
          => /\ DOMAIN rooms = {"room1"}
             /\ \E r \in Writers : rooms["room1"] = WrittenBy(r))
    /\ [][ /\ \A r \in Reqs :
                 (~WroteOk(r) /\ WroteOk(r)')
                 => /\ rooms'["room1"] = WrittenBy(r)'
                    /\ rooms'["room1"].callId = req[r].body.callId
                    /\ rooms'["room1"].callerUid = req[r].body.callerUid
                    /\ rooms'["room1"].createdBy = req[r].body.callerUid
           /\ rooms' # rooms => \E r \in Reqs : ~WroteOk(r) /\ WroteOk(r)' ]_vars

C25_Witness ==
    /\ BothDone /\ Writers = Reqs
    /\ req[2].body.callId = "c2"
    /\ rooms["room1"] = WrittenBy(1)
    /\ rooms["room1"] # WrittenBy(2)
    /\ trace[2][1].ok /\ Len(trace[1]) >= 2

\* C29 as stated: for two concurrent valid requests with the same channelName
\* and different callIds, once both have responded every push that was sent
\* carries the callId held by the stored room record.
C29_PushesCarryStoredCallId ==
    (BothDone /\ Writers = Reqs /\ req[1].body.callId # req[2].body.callId)
    => \A r \in Reqs :
          \A i \in DOMAIN outbox[r] :
              outbox[r][i].msg.data.callId = StrV(rooms["room1"].callId)

\* C29 as amended: every push of a request is sent after that request's own
\* write returned and carries that request's own callId and channelName; the
\* stored record holds the callId of the request that wrote last, so with
\* different callIds the pushes of the other request carry a callId the
\* store no longer holds.
C29_PushesCarryOwnCallId ==
    \A r \in Reqs :
        /\ \A i \in DOMAIN outbox[r] :
              /\ WroteOk(r)
              /\ outbox[r][i].msg.data.callId = StrV(req[r].body.callId)
              /\ outbox[r][i].msg.data.channelName = StrV(req[r].body.channelName)
        /\ (BothDone /\ Writers = Reqs)
           => /\ rooms["room1"].callId \in {req[1].body.callId, req[2].body.callId}
              /\ \A i \in DOMAIN outbox[r] :
                    rooms["room1"] # WrittenBy(r)
                    => (outbox[r][i].msg.data.callId = StrV(rooms["room1"].callId)
                        <=> req[1].body.callId = req[2].body.callId)

C29_Witness ==
    /\ BothDone /\ Writers = Reqs
    /\ req[1].body.callId = "c1" /\ req[2].body.callId = "c2"
    /\ rooms["room1"].callId = "c2"
    /\ Len(outbox[1]) = 2 /\ Len(outbox[2]) = 2
    /\ outbox[1][2].msg.data.callId = StrV("c1")
    /\ \E i \in PushesOf(1) : trace[1][i].ok


\* the buildTokenWithUid calls of invocation r
Builds(r) == OpsOf(r, "build")
\* AGORA_APP_ID or AGORA_APP_CERT is not configured
Unconfigured == Falsy(env.AGORA_APP_ID) \/ Falsy(env.AGORA_APP_CERT)
\* the expiry the environment configures, 600 when it configures none
ConfiguredExpiry ==
    CASE env.TOKEN_EXPIRY_SECONDS = NoStr -> NumV(600)
      [] env.TOKEN_EXPIRY_SECONDS = EmptyStr -> NumV(600)
      [] env.TOKEN_EXPIRY_SECONDS = <<"6", "0">> -> NumV(60)
      [] env.TOKEN_EXPIRY_SECONDS = <<"9", "0", "s">> -> NumV(90)
      [] OTHER -> NaN
\* the first of channel, room and channelName with a non-empty value
NamedChannel(y) ==
    IF Truthy(y.channel) THEN y.channel
    ELSE IF Truthy(y.room) THEN y.room
    ELSE y.channelName
\* the answered GET of the agoraToken handler built one token and sent it
\* for channel c
OneTokenFor(c) ==
    /\ Cardinality(Builds(2)) = 1 /\ Len(trace[2]) = 1
    /\ trace[2][1].data.channel = c
    /\ trace[2][1].data.appId = env.AGORA_APP_ID
    /\ trace[2][1].data.appCert = env.AGORA_APP_CERT
    /\ IF trace[2][1].ok
         THEN /\ AnsweredOnce(2, 200)
              /\ res[2].sent[1].body.token = "TOKEN"
              /\ res[2].sent[1].body.channelName = c
              /\ res[2].sent[1].body.expires_in = ConfiguredExpiry
         ELSE AnsweredOnce(2, 500)

\* C22 as stated: in the agoraToken handler a GET request with no channel
\* parameter, or made while AGORA_APP_ID or AGORA_APP_CERT is unconfigured,
\* is answered 400 and the token builder is never invoked; otherwise exactly
\* one token is built and the 200 response carries the requested channel as
\* channelName and the configured expiry (600 when unset) as expires_in.
C22_ChannelRequired ==
    (pc[2] = "done" /\ req[2].method = "GET")
    => IF Falsy(req[2].query.channel) \/ Unconfigured
         THEN AnsweredOnce(2, 400) /\ Builds(2) = {}
         ELSE OneTokenFor(req[2].query.channel)

\* C22 as amended: the channel is the first non-empty of the query
\* parameters channel, room and channelName.  A GET request in which none of
\* the three has a non-empty value, or made while AGORA_APP_ID or
\* AGORA_APP_CERT is unset or empty, is answered 400 and the token builder
\* is never invoked; otherwise the builder is invoked exactly once, for that
\* channel, and when it returns the 200 response carries that channel as
\* channelName and parseInt(TOKEN_EXPIRY_SECONDS || "600", 10) as expires_in.
C22_ChannelOrAliasRequired ==
    /\ Cardinality(Builds(2)) <= 1
    /\ pc[2] = "at_build" => Builds(2) = {}
    /\ (pc[2] = "done" /\ req[2].method = "GET")
       => IF Falsy(NamedChannel(req[2].query)) \/ Unconfigured
            THEN AnsweredOnce(2, 400) /\ Builds(2) = {}
            ELSE OneTokenFor(NamedChannel(req[2].query))

C22_Witness ==
    /\ pc[2] = "done" /\ req[2].method = "GET"
    /\ req[2].query.channel = Undefined /\ req[2].query.room = "room2"
    /\ env.TOKEN_EXPIRY_SECONDS = NoStr
    /\ AnsweredOnce(2, 200)
    /\ res[2].sent[1].body.channelName = "room2"
    /\ res[2].sent[1].body.expires_in = NumV(600)
    /\ Cardinality(Builds(2)) = 1

\* C23: in both token handlers a failure of the token-signing call
\* (buildTokenWithUid throws) results in a response with status 500, not in
\* an unanswered request or an exception that leaves the handler.
C23_SigningFailureIs500 ==
    \A r \in Reqs :
        (\E i \in Builds(r) : ~trace[r][i].ok)
        => pc[r] = "done" /\ AnsweredOnce(r, 500)

=============================================================================
